---- MODULE Spec2Model ----
(***************************************************************************)
(* Model of the deduplication engine of kdc0901/image_extraction           *)
(* (src/src/processing/deduplicator.py): the two insertion-ordered caches, *)
(* the single-item decisions is_duplicate_image / is_duplicate_text and    *)
(* the batch operations deduplicate_images / deduplicate_texts, which run  *)
(* the single-item decisions on the workers of a thread pool.              *)
(*                                                                         *)
(* Abstractions, all on the input side:                                    *)
(*  - a frame is named by a string; Pixels(f) is its 8x8 luminance grid    *)
(*    after cv2.resize/cvtColor (the resampling itself is library code);   *)
(*  - a snippet is the sequence of its raw tokens; the analyzer of         *)
(*    TfidfVectorizer (lower-casing, the two-character token pattern, the  *)
(*    English stop list) is applied to it by Analyze;                      *)
(*  - similarities are exact rationals (image) or exact squared rationals  *)
(*    (text), so that the comparison with the threshold is exact; the      *)
(*    smoothed idf of a term that occurs in one of the two documents,      *)
(*    1 + ln(3/2) = 1.405.., is taken as 7/5;                              *)
(*  - hash(text) is taken injective: the cache key of a snippet is the     *)
(*    snippet under a tag.                                                 *)
(***************************************************************************)
EXTENDS Integers, Sequences, FiniteSets, TLC

VARIABLES
    similarity_threshold,   \* self.similarity_threshold, a rational [num, den]
    cache_size,             \* self.cache_size
    image_cache,            \* self.image_cache: OrderedDict as a sequence of [key, val], oldest first
    text_cache,             \* self.text_cache
    ret,                    \* the last single-item call: [op, dup]
    hist,                   \* the items presented so far (recorded by SpecFifo only)
    phase,                  \* batch call: "idle", "running" or "returned"
    kind,                   \* batch call: "image" or "text"
    input,                  \* batch call: the list given to deduplicate_images / deduplicate_texts
    cache0,                 \* batch call: the cache of that kind when the call started
    task,                   \* batch call: per submitted item, the state of its pool task
    completed,              \* batch call: the indices of the finished futures, in completion order
    out,                    \* batch call: the returned list
    thread_pool,            \* self.thread_pool: "live", "joining" (shutdown() waits) or "shutdown"
    vectorizer,             \* self.vectorizer: the fitted state the next transform reads
    cmp,                    \* per pool worker, its call of calculate_text_similarity
    stage,                  \* process_video: the statement it is at
    world,                  \* process_video: what the collaborators of this run do
    reported,               \* process_video: the progress values given to the callback
    calls,                  \* process_video: the collaborator calls made, with their arguments
    result,                 \* process_video: the returned value
    arg,                    \* a direct call of a hash or similarity function: its arguments
    answer,                 \* that call: [status, value], status "none", "returned" or "raised"
    extract_button,         \* MainWindow.extract_button.isEnabled()
    stop_button,            \* MainWindow.stop_button.isEnabled()
    threads,                \* the ProcessingThreads started so far; self.processing_thread is the last
    processing_thread,      \* one ProcessingThread step by step: where run() is, and _is_cancelled
    emitted                 \* the signals that ProcessingThread has emitted, in order

cacheVars == <<image_cache, text_cache>>
configVars == <<similarity_threshold, cache_size>>
batchVars == <<phase, kind, input, cache0, task, completed, out>>
poolVars == <<thread_pool>>
vectorizerVars == <<vectorizer, cmp>>
videoVars == <<stage, world, reported, calls, result>>
pureVars == <<arg, answer>>
threadVars == <<processing_thread, emitted>>
guiVars == <<extract_button, stop_button, threads, threadVars>>
extVars == <<poolVars, vectorizerVars, videoVars, pureVars, guiVars>>
vars == <<similarity_threshold, cache_size, image_cache, text_cache, ret, hist,
          phase, kind, input, cache0, task, completed, out, thread_pool,
          vectorizer, cmp, stage, world, reported, calls, result, arg, answer,
          extract_button, stop_button, threads, processing_thread, emitted>>

----------------------------------------------------------------------------
(* Bounds of the model *)

MaxCacheSize == 2
MaxBatch == 3
MaxUsedBatch == 2
MaxBits == 3
MaxShift == 10
MaxThreads == 3
NumWorkers == 2

(* Program constants *)

HashSide == 8

HashLen == HashSide * HashSide

White == 255

(* similarity_threshold values given at construction (0.9 is the default) *)
Thresholds == {[num |-> 9, den |-> 10], [num |-> 3, den |-> 4]}

DefaultThreshold == [num |-> 9, den |-> 10]

----------------------------------------------------------------------------
(* Frames *)

Range(s) == {s[i] : i \in 1..Len(s)}

\* a frame that is white but for the thumbnail cells in dark (luminance 0)
Grid(dark) == [i \in 1..HashLen |-> IF i \in dark THEN 0 ELSE White]

Frames == {"white", "patch", "patch2", "quarter", "half", "right"}

Pixels(f) ==
    CASE f = "white"   -> Grid({})
      [] f = "patch"   -> Grid(1..4)
      [] f = "patch2"  -> Grid(1..6)
      [] f = "quarter" -> Grid(1..20)
      [] f = "half"    -> Grid(1..32)
      [] f = "right"   -> Grid(33..64)
      [] f = "black"   -> Grid(1..64)

RECURSIVE SumSeq(_, _)
SumSeq(s, i) == IF i > Len(s) THEN 0 ELSE s[i] + SumSeq(s, i + 1)

\* ''.join(str(d) for d in diff.flatten()): 'True' / 'False' per cell
ThresholdAsBool(gray) ==
    LET total == SumSeq(gray, 1)
    IN  [i \in 1..HashLen |-> IF gray[i] * HashLen > total THEN "True" ELSE "False"]

\* a threshold fixed at the middle of the scale instead of the mean
ThresholdMidScale(gray) ==
    [i \in 1..HashLen |-> IF 2 * gray[i] > White THEN "1" ELSE "0"]

\* gray > gray.mean(), flattened to a string of '1' / '0'
Threshold(gray) ==
    LET total == SumSeq(gray, 1)
    IN  [i \in 1..HashLen |-> IF gray[i] * HashLen > total THEN "1" ELSE "0"]

calculate_image_hash(image) == Threshold(Pixels(image))

\* the frames of the model: Frames and the all-black frame
AllFrames == Frames \cup {"black"}

\* the content-hash of every frame (calculate_image_hash is pure)
ImageHashOf == [f \in AllFrames |-> calculate_image_hash(f)] @@ << >>

RECURSIVE Hamming(_, _, _)
Hamming(h1, h2, i) ==
    IF i > Len(h1) THEN 0
    ELSE (IF h1[i] # h2[i] THEN 1 ELSE 0) + Hamming(h1, h2, i + 1)

\* 1.0 - hamming_distance / len(hash1), or 0.0 when the lengths differ
\* hamming_distance / len(hash1) with len(hash1) = 0
ZeroDivisionError == [num |-> 0, den |-> 0]

calculate_image_similarity(hash1, hash2) ==
    IF Len(hash1) # Len(hash2) THEN [num |-> 0, den |-> 1]
    ELSE IF Len(hash1) = 0 THEN ZeroDivisionError
    ELSE [num |-> Len(hash1) - Hamming(hash1, hash2, 1), den |-> Len(hash1)]

ImageSimOf ==
    [p \in {ImageHashOf[f] : f \in AllFrames} \X {ImageHashOf[f] : f \in AllFrames} |->
        calculate_image_similarity(p[1], p[2])] @@ << >>

\* similarity <= self.similarity_threshold
ImageLE(similarity, threshold) ==
    similarity.num * threshold.den <= threshold.num * similarity.den

\* similarity > self.similarity_threshold
ImageGT(similarity, threshold) ==
    similarity.num * threshold.den > threshold.num * similarity.den

\* similarity >= self.similarity_threshold, for an image similarity
ImageGE(similarity, threshold) ==
    similarity.num * threshold.den >= threshold.num * similarity.den

----------------------------------------------------------------------------
(* Text snippets *)

Snippets ==
    { <<"hello", "world">>,
      <<"Hello", "world", "!">>,
      <<"hello", "cat">>,
      <<"stock", "market">>,
      <<"the", "is">>,
      << >> }

StopWords == {"the", "is", "this"}

ShortTokens == {"!", "a"}

Lower(t) == IF t = "Hello" THEN "hello" ELSE t

Keep(t) == t \notin ShortTokens /\ t \notin StopWords

\* the analyzer of TfidfVectorizer(strip_accents='unicode', stop_words='english')
Analyze(text) == SelectSeq([i \in 1..Len(text) |-> Lower(text[i])], Keep)

Tf(terms, t) == Cardinality({i \in 1..Len(terms) : terms[i] = t})

\* the dot product of two term vectors
RECURSIVE SumOver(_, _, _)
SumOver(S, fa, fb) ==
    IF S = {} THEN 0
    ELSE LET t == CHOOSE x \in S : TRUE
         IN  fa[t] * fb[t] + SumOver(S \ {t}, fa, fb)

\* cosine_similarity(fit_transform([text1, text2]))[0, 1], squared; 0.0 when
\* fit_transform raises (empty vocabulary) or a vector is zero
calculate_text_similarity(text1, text2) ==
    LET a == Analyze(text1)
        b == Analyze(text2)
        vocabulary == Range(a) \cup Range(b)
        \* smoothed idf times 5: ln(3 / (1 + df)) + 1 is 1 for df = 2
        idf == [t \in vocabulary |->
                   IF t \in Range(a) /\ t \in Range(b) THEN 5 ELSE 7]
        wa == [t \in vocabulary |-> Tf(a, t) * idf[t]]
        wb == [t \in vocabulary |-> Tf(b, t) * idf[t]]
        dot == SumOver(vocabulary, wa, wb)
        na == SumOver(vocabulary, wa, wa)
        nb == SumOver(vocabulary, wb, wb)
    IN  IF vocabulary = {} \/ na = 0 \/ nb = 0
        THEN [num |-> 0, den |-> 1]
        ELSE [num |-> dot * dot, den |-> na * nb]

TextSimOf ==
    [p \in Snippets \X Snippets |-> calculate_text_similarity(p[1], p[2])] @@ << >>

\* similarity >= self.similarity_threshold, for a (squared) text similarity
TextGE(similarity, threshold) ==
    similarity.num * threshold.den * threshold.den
        >= threshold.num * threshold.num * similarity.den

\* str(hash(text))
TextHash(text) == <<"hash", text>>

----------------------------------------------------------------------------
(* Malformed items *)

\* a frame given as a two-dimensional (single channel) array
MalformedFrames == {"gray2d"}

\* a list given in place of a str
MalformedSnippets == { <<"[", "hello", "]">> }

\* cv2.cvtColor(resized, cv2.COLOR_BGR2GRAY) raises cv2.error for a frame
\* that has not three channels
CvtColorRaises(image) == image \in MalformedFrames

\* hash(text) raises TypeError for an unhashable value
HashRaises(text) == text \in MalformedSnippets

\* the try block of is_duplicate_image / is_duplicate_text raises before
\* _process_image / _process_text is entered
Raises(k, item) == IF k = "image" THEN CvtColorRaises(item) ELSE HashRaises(item)

----------------------------------------------------------------------------
(* OrderedDict *)

OdHas(od, key) == \E i \in 1..Len(od) : od[i].key = key

\* od[key] = val: a new key goes to the end, an existing key keeps its place
OdSet(od, key, val) ==
    IF OdHas(od, key)
    THEN [i \in 1..Len(od) |-> IF od[i].key = key THEN [key |-> key, val |-> val] ELSE od[i]]
    ELSE Append(od, [key |-> key, val |-> val])

\* od.popitem(): the newest entry instead of the oldest
OdPopLast(od) == SubSeq(od, 1, Len(od) - 1)

\* od.popitem(last=False)
OdPopFirst(od) == Tail(od)

\* len(cache) > cache_size instead of >=
CacheFullOffByOne(od) == Len(od) > cache_size

\* the insertion at the end of _process_image / _process_text
CacheFull(od) == Len(od) >= cache_size

\* the insertion without the eviction
CacheAddNoEvict(od, key, val) == OdSet(od, key, val)

CacheAdd(od, key, val) ==
    OdSet(IF CacheFull(od) THEN OdPopFirst(od) ELSE od, key, val)

\* popitem(last=False) on an empty OrderedDict raises KeyError: the cache
\* is empty and len(cache) >= cache_size holds all the same
PopItemRaises(od) == CacheFull(od) /\ Len(od) = 0

----------------------------------------------------------------------------
(* The single-item decision *)

\* similarity >= self.similarity_threshold, as a function of the threshold
ImageMatchAt(image_hash, entry, threshold) ==
    ImageGE(ImageSimOf[<<image_hash, entry.key>>], threshold)

TextMatchAt(text, entry, threshold) ==
    TextGE(TextSimOf[<<text, entry.val>>], threshold)

ImageMatch(image_hash, entry) == ImageMatchAt(image_hash, entry, similarity_threshold)

TextMatch(text, entry) == TextMatchAt(text, entry, similarity_threshold)

\* a scan that compares with the newest entry alone
ScanImageRecent(od, image_hash, i) ==
    Len(od) > 0 /\ ImageMatch(image_hash, od[Len(od)])

\* the for loop of _process_image from entry i on: TRUE when it returns True
RECURSIVE ScanImageAt(_, _, _, _)
ScanImageAt(od, image_hash, i, threshold) ==
    IF i > Len(od) THEN FALSE
    ELSE IF ImageMatchAt(image_hash, od[i], threshold) THEN TRUE
    ELSE ScanImageAt(od, image_hash, i + 1, threshold)

ScanImage(od, image_hash, i) == ScanImageAt(od, image_hash, i, similarity_threshold)

\* the for loop of _process_text from entry i on
RECURSIVE ScanTextAt(_, _, _, _)
ScanTextAt(od, text, i, threshold) ==
    IF i > Len(od) THEN FALSE
    ELSE IF TextMatchAt(text, od[i], threshold) THEN TRUE
    ELSE ScanTextAt(od, text, i + 1, threshold)

ScanText(od, text, i) == ScanTextAt(od, text, i, similarity_threshold)

\* a hit that moves the matched entry to the newest position (an LRU)
_process_image_refresh(od, image, image_hash) ==
    IF \E i \in 1..Len(od) : ImageMatch(image_hash, od[i])
    THEN LET m == CHOOSE i \in 1..Len(od) :
                      /\ ImageMatch(image_hash, od[i])
                      /\ \A j \in 1..(i - 1) : ~ImageMatch(image_hash, od[j])
         IN  [dup |-> TRUE,
              cache |-> Append(SelectSeq(od, LAMBDA e : e # od[m]), od[m])]
    ELSE [dup |-> FALSE, cache |-> CacheAdd(od, image_hash, image)]

_process_image(od, image, image_hash) ==
    IF ScanImage(od, image_hash, 1)
    THEN [dup |-> TRUE, cache |-> od]
    ELSE [dup |-> FALSE, cache |-> CacheAdd(od, image_hash, image)]

_process_text(od, text, text_hash) ==
    IF ScanText(od, text, 1)
    THEN [dup |-> TRUE, cache |-> od]
    ELSE [dup |-> FALSE, cache |-> CacheAdd(od, text_hash, text)]

Idle == phase = "idle"

\* no try block: the exception reaches the caller
ExceptPropagates(op) == [op |-> "raise", dup |-> FALSE]

\* an except clause that returns True
ExceptReturnsTrue(op) == [op |-> op, dup |-> TRUE]

\* the except clause of is_duplicate_image / is_duplicate_text: log, return False
ExceptReturn(op) == [op |-> op, dup |-> FALSE]

\* the eviction made before the hash is computed: l.176-177 ahead of l.194
is_duplicate_image_evicting(image) ==
    /\ Idle
    /\ IF CvtColorRaises(image) \/ PopItemRaises(image_cache)
       THEN /\ ret' = ExceptReturn("image")
            /\ image_cache' = (IF CacheFull(image_cache) /\ Len(image_cache) > 0
                               THEN OdPopFirst(image_cache) ELSE image_cache)
       ELSE LET r == _process_image(image_cache, image, ImageHashOf[image])
            IN  /\ image_cache' = r.cache
                /\ ret' = [op |-> "image", dup |-> r.dup]
    /\ UNCHANGED <<text_cache, configVars, batchVars>>

is_duplicate_image(image) ==
    /\ Idle
    /\ IF CvtColorRaises(image) \/ PopItemRaises(image_cache)
       THEN /\ ret' = ExceptReturn("image")
            /\ UNCHANGED image_cache
       ELSE LET r == _process_image(image_cache, image, ImageHashOf[image])
            IN  /\ image_cache' = r.cache
                /\ ret' = [op |-> "image", dup |-> r.dup]
    /\ UNCHANGED <<text_cache, configVars, batchVars>>

\* one budget of cache_size entries for the two caches: a text that is
\* added evicts the oldest image
is_duplicate_text_shared(text) ==
    /\ Idle
    /\ LET r == _process_text(text_cache, text, TextHash(text))
       IN  /\ text_cache' = r.cache
           /\ ret' = [op |-> "text", dup |-> r.dup]
           /\ image_cache' = (IF ~r.dup /\ Len(image_cache) > 0
                              THEN OdPopFirst(image_cache) ELSE image_cache)
    /\ UNCHANGED <<configVars, batchVars>>

is_duplicate_text(text) ==
    /\ Idle
    /\ IF HashRaises(text) \/ PopItemRaises(text_cache)
       THEN /\ ret' = ExceptReturn("text")
            /\ UNCHANGED text_cache
       ELSE LET r == _process_text(text_cache, text, TextHash(text))
            IN  /\ text_cache' = r.cache
                /\ ret' = [op |-> "text", dup |-> r.dup]
    /\ UNCHANGED <<image_cache, configVars, batchVars>>

----------------------------------------------------------------------------
(* The shared TfidfVectorizer.  self.vectorizer.fit_transform([text1, text2])
   builds the term counts of the two texts over their own sorted vocabulary
   (local to the call), fits the idf weights of that vocabulary and stores
   them in the vectorizer, and then transforms the counts with the idf
   weights the vectorizer holds at that moment.  Every pool worker uses the
   one vectorizer of the Deduplicator, without a lock. *)

\* the terms in the order of sorted(vocabulary)
TermOrder == <<"cat", "hello", "market", "stock", "world">>

SortedTerms(V) == SelectSeq(TermOrder, LAMBDA t : t \in V)

Vocabulary(text1, text2) == Range(Analyze(text1)) \cup Range(Analyze(text2))

\* a TfidfTransformer that was not fitted yet
Unfitted == [fitted |-> FALSE, idf |-> << >>]

\* TfidfTransformer.fit: the smoothed idf (times 5) of each feature
FitIdf(text1, text2) ==
    LET a == Analyze(text1)
        b == Analyze(text2)
        terms == SortedTerms(Vocabulary(text1, text2))
    IN  [j \in 1..Len(terms) |->
            IF terms[j] \in Range(a) /\ terms[j] \in Range(b) THEN 5 ELSE 7]

\* TfidfTransformer.transform with the idf weights idf, then
\* cosine_similarity(vectors)[0, 1], squared
TransformWith(text1, text2, idf) ==
    LET a == Analyze(text1)
        b == Analyze(text2)
        terms == SortedTerms(Vocabulary(text1, text2))
        wa == [j \in 1..Len(terms) |-> Tf(a, terms[j]) * idf[j]]
        wb == [j \in 1..Len(terms) |-> Tf(b, terms[j]) * idf[j]]
        dot == SumOver(1..Len(terms), wa, wb)
        na == SumOver(1..Len(terms), wa, wa)
        nb == SumOver(1..Len(terms), wb, wb)
    IN  IF na = 0 \/ nb = 0
        THEN [num |-> 0, den |-> 1]
        ELSE [num |-> dot * dot, den |-> na * nb]

\* the except clause of calculate_text_similarity: log, return 0.0
SimilarityExcept == [num |-> 0, den |-> 1]

NoComparison == [pc |-> "idle", text1 |-> << >>, text2 |-> << >>, result |-> SimilarityExcept]

\* a pool worker enters calculate_text_similarity(text1, text2)
CallSimilarity(w, text1, text2) ==
    /\ cmp[w].pc = "idle"
    /\ cmp' = [cmp EXCEPT ![w] = [pc |-> "new", text1 |-> text1, text2 |-> text2,
                                  result |-> SimilarityExcept]]
    /\ UNCHANGED vectorizer

\* fit_transform begins: depending on the release of the library the
\* vectorizer keeps its TfidfTransformer or replaces it with a new one
NewTransformer(w) ==
    /\ cmp[w].pc = "new"
    /\ cmp' = [cmp EXCEPT ![w].pc = "fit"]
    /\ \E v \in {vectorizer, Unfitted} : vectorizer' = v

\* the counts are built and the idf weights are fitted and stored; an empty
\* vocabulary raises ValueError, which the except clause turns into 0.0
Fit(w) ==
    /\ cmp[w].pc = "fit"
    /\ IF Vocabulary(cmp[w].text1, cmp[w].text2) = {}
       THEN /\ cmp' = [cmp EXCEPT ![w].pc = "done", ![w].result = SimilarityExcept]
            /\ UNCHANGED vectorizer
       ELSE /\ cmp' = [cmp EXCEPT ![w].pc = "transform"]
            /\ vectorizer' = [fitted |-> TRUE, idf |-> FitIdf(cmp[w].text1, cmp[w].text2)]

\* the counts are weighted with the idf the vectorizer holds now; a
\* transformer that is not fitted or was fitted on another number of
\* features raises, which the except clause turns into 0.0
Transform(w) ==
    /\ cmp[w].pc = "transform"
    /\ LET n == Cardinality(Vocabulary(cmp[w].text1, cmp[w].text2))
       IN  cmp' = [cmp EXCEPT
                     ![w].pc = "done",
                     ![w].result =
                         IF ~vectorizer.fitted \/ Len(vectorizer.idf) # n
                         THEN SimilarityExcept
                         ELSE TransformWith(cmp[w].text1, cmp[w].text2, vectorizer.idf)]
    /\ UNCHANGED vectorizer

\* the caller has the value; the worker is free again
ReturnSimilarity(w) ==
    /\ cmp[w].pc = "done"
    /\ cmp' = [cmp EXCEPT ![w] = NoComparison]
    /\ UNCHANGED vectorizer

----------------------------------------------------------------------------
(* YouTubeProcessor.process_video (src/src/main.py).  A run goes through
   the statements of the method in order; what the collaborators do in the
   run (the progress callback, the file system, the download, the two
   extractors, the document converter) is the world of the run. *)

\* the progress values of the _update_progress calls before the last one
Checkpoints == {0, 10, 30, 60, 80, 90}

\* the callback returns True at every checkpoint
Never == -1

\* the progress callback: not set, or set and returning False at one
\* checkpoint or at none
Callbacks ==
    {[set |-> FALSE, stop |-> Never]}
        \cup {[set |-> TRUE, stop |-> p] : p \in Checkpoints \cup {Never}}

\* process_video is at statement stmt
At(stmt) == [stmt |-> stmt, progress |-> Never]

\* process_video is at the call self._update_progress(p, ...)
AtCheckpoint(p) == [stmt |-> "_update_progress", progress |-> p]

\* the positional parameters of DocumentConverter.create_document that
\* have no default
CreateDocumentParams == <<"images", "texts">>

Worlds ==
    [ callback : Callbacks,
      directories : {"created", "raise"},
      download : {"path", "None"},
      frames : {"frames", "empty", "raise"},
      texts : {"texts", "empty", "raise"},
      \* the method of the class, or the mock the tests put in its place
      create_document : {"DocumentConverter.create_document", "mock"},
      save : {"saved", "raise"},
      keep_video : BOOLEAN ]

NoWorld ==
    [ callback |-> [set |-> FALSE, stop |-> Never], directories |-> "created", download |-> "path",
      frames |-> "frames", texts |-> "texts",
      create_document |-> "DocumentConverter.create_document",
      save |-> "saved", keep_video |-> FALSE ]

\* return value from process_video
ReturnFrom(value) ==
    /\ stage' = At("returned")
    /\ result' = value

\* the statement after the checkpoint of progress p
AfterCheckpoint(p) ==
    CASE p = 0  -> "_initialize_directories"
      [] p = 10 -> "_download_youtube_video"
      [] p = 30 -> "extract_frames"
      [] p = 60 -> "extract_text"
      [] p = 80 -> "create_document"
      [] p = 90 -> "cleanup"

process_video(w) ==
    /\ stage = At("idle")
    /\ stage' = AtCheckpoint(0)
    /\ world' = w
    /\ UNCHANGED <<reported, calls, result>>

\* self._update_progress(p, ...) as a statement: the answer of the callback
\* is not looked at
_update_progress_ignored(p) ==
    /\ stage = AtCheckpoint(p)
    /\ reported' = (IF world.callback.set THEN Append(reported, p) ELSE reported)
    /\ stage' = At(AfterCheckpoint(p))
    /\ UNCHANGED <<world, calls, result>>

\* if not self._update_progress(p, ...): return False
_update_progress(p) ==
    /\ stage = AtCheckpoint(p)
    /\ reported' = (IF world.callback.set THEN Append(reported, p) ELSE reported)
    /\ IF world.callback.set /\ world.callback.stop = p
       THEN ReturnFrom("False")
       ELSE stage' = At(AfterCheckpoint(p)) /\ UNCHANGED result
    /\ UNCHANGED <<world, calls>>

\* if not self._initialize_directories(): return False
_initialize_directories ==
    /\ stage = At("_initialize_directories")
    /\ IF world.directories = "created"
       THEN stage' = AtCheckpoint(10) /\ UNCHANGED result
       ELSE ReturnFrom("False")
    /\ UNCHANGED <<world, reported, calls>>

\* video_path = self._download_youtube_video(url)
_download_youtube_video ==
    /\ stage = At("_download_youtube_video")
    /\ IF world.download = "path"
       THEN stage' = AtCheckpoint(30) /\ UNCHANGED result
       ELSE ReturnFrom("False")
    /\ UNCHANGED <<world, reported, calls>>

\* the result of extract_frames is not looked at and no try block surrounds
\* the call: the run goes on to the text extraction
extract_frames_unchecked ==
    /\ stage = At("extract_frames")
    /\ calls' = Append(calls, [op |-> "extract_frames", args |-> <<"video_path">>])
    /\ stage' = AtCheckpoint(60)
    /\ UNCHANGED <<world, reported, result>>

\* extracted_frames = self.image_extractor.extract_frames(video_path), in
\* its own try block
extract_frames ==
    /\ stage = At("extract_frames")
    /\ calls' = Append(calls, [op |-> "extract_frames", args |-> <<"video_path">>])
    /\ IF world.frames = "frames"
       THEN stage' = AtCheckpoint(60) /\ UNCHANGED result
       ELSE ReturnFrom("False")
    /\ UNCHANGED <<world, reported>>

\* extracted_texts = self.text_extractor.extract_text(str(video_path))
extract_text ==
    /\ stage = At("extract_text")
    /\ calls' = Append(calls, [op |-> "extract_text", args |-> <<"video_path">>])
    /\ IF world.texts = "texts"
       THEN stage' = AtCheckpoint(80) /\ UNCHANGED result
       ELSE ReturnFrom("False")
    /\ UNCHANGED <<world, reported>>

\* doc_result = doc_converter.create_document(combined_text): the call
\* raises TypeError when it gives fewer arguments than the method requires,
\* and the method raises when the document cannot be saved; the except
\* clause of process_video returns False
create_document ==
    /\ stage = At("create_document")
    /\ LET args == <<"combined_text">>
           raises ==
               /\ world.create_document = "DocumentConverter.create_document"
               /\ \/ Len(args) < Len(CreateDocumentParams)
                  \/ world.save = "raise"
       IN  /\ calls' = Append(calls, [op |-> "create_document", args |-> args])
           /\ IF raises
              THEN ReturnFrom("False")
              ELSE stage' = AtCheckpoint(90) /\ UNCHANGED result
    /\ UNCHANGED <<world, reported>>

\* the downloaded file is kept or removed; self._update_progress(100, ...);
\* return True
cleanup ==
    /\ stage = At("cleanup")
    /\ reported' = (IF world.callback.set THEN Append(reported, 100) ELSE reported)
    /\ ReturnFrom("True")
    /\ UNCHANGED <<world, calls>>

----------------------------------------------------------------------------
(* The main window (src/src/gui/main_window.py).  A click reaches the slot
   of a button only while the button is enabled.  A ProcessingThread runs
   process_video, which looks at _is_cancelled at its progress checkpoints
   only; when run() is over the finished signal is queued to the GUI
   thread, which then runs processing_finished. *)

\* a ProcessingThread right after start()
Started == [pc |-> "running", _is_cancelled |-> FALSE]

\* processing_thread.isRunning()
isRunning(t) == t.pc = "running"

\* the slot of the extract button; the url and the directory are given or not
start_processing(valid) ==
    /\ extract_button
    /\ Len(threads) < MaxThreads
    /\ IF valid
       THEN /\ extract_button' = FALSE
            /\ stop_button' = TRUE
            /\ threads' = Append(threads, Started)
            /\ UNCHANGED threadVars
       ELSE UNCHANGED guiVars

\* the slot of the stop button
stop_processing ==
    /\ stop_button
    /\ IF Len(threads) > 0 /\ isRunning(threads[Len(threads)])
       THEN /\ threads' = [threads EXCEPT ![Len(threads)]._is_cancelled = TRUE]
            /\ stop_button' = FALSE
            /\ extract_button' = TRUE
            /\ UNCHANGED threadVars
       ELSE UNCHANGED guiVars

\* run() of thread i is over: process_video has returned (False at the
\* first checkpoint after a stop request) and finished was emitted
run(i) ==
    /\ isRunning(threads[i])
    /\ threads' = [threads EXCEPT ![i].pc = "emitted"]
    /\ UNCHANGED <<extract_button, stop_button, threadVars>>

\* the GUI thread delivers the finished signal of thread i
processing_finished(i) ==
    /\ threads[i].pc = "emitted"
    /\ threads' = [threads EXCEPT ![i].pc = "finished"]
    /\ extract_button' = TRUE
    /\ stop_button' = FALSE
    /\ UNCHANGED threadVars

----------------------------------------------------------------------------
(* ProcessingThread.run, statement by statement.  run() is executed by the
   worker thread; requestInterruption is called by the GUI thread (from
   stop_processing) at any moment of it.  The progress callback of
   process_video is ProcessingThread._update_progress. *)

\* a ProcessingThread whose run() is about to begin
AtRun == [pc |-> "run", _is_cancelled |-> FALSE]

progress(p) == [signal |-> "progress", value |-> p]

finished(success) == [signal |-> "finished", value |-> success]

\* run is in its try block: the processor is constructed, the callback
\* set, the configuration saved (any of which may raise), and
\* process_video is called
run_try(w, raises) ==
    /\ processing_thread.pc = "run"
    /\ IF raises
       THEN /\ processing_thread' = [processing_thread EXCEPT !.pc = "except"]
            /\ UNCHANGED videoVars
       ELSE /\ processing_thread' = [processing_thread EXCEPT !.pc = "process_video"]
            /\ process_video(w)
    /\ UNCHANGED emitted

\* the downloaded file is kept or removed; process_video is at
\* self._update_progress(100, ...)
remove_video ==
    /\ stage = At("cleanup")
    /\ stage' = AtCheckpoint(100)
    /\ UNCHANGED <<world, reported, calls, result, threadVars>>

\* the callback has returned to process_video: `if not ...: return False`
\* at a checkpoint, the value dropped and `return True` at progress 100
CallbackReturns(value) ==
    IF stage.progress = 100 THEN ReturnFrom("True")
    ELSE IF value THEN stage' = At(AfterCheckpoint(stage.progress)) /\ UNCHANGED result
    ELSE ReturnFrom("False")

\* process_video calls the callback; _update_progress: if
\* self._is_cancelled: return False
_is_cancelled_check ==
    /\ processing_thread.pc = "process_video"
    /\ stage.stmt = "_update_progress"
    /\ reported' = Append(reported, stage.progress)
    /\ IF processing_thread._is_cancelled
       THEN CallbackReturns(FALSE) /\ UNCHANGED processing_thread
       ELSE /\ processing_thread' = [processing_thread EXCEPT !.pc = "emit"]
            /\ UNCHANGED <<stage, result>>
    /\ UNCHANGED <<world, calls, emitted>>

\* _update_progress: self.progress.emit(progress, message); return True
progress_emit ==
    /\ processing_thread.pc = "emit"
    /\ emitted' = Append(emitted, progress(stage.progress))
    /\ processing_thread' = [processing_thread EXCEPT !.pc = "process_video"]
    /\ CallbackReturns(TRUE)
    /\ UNCHANGED <<world, reported, calls>>

\* self.finished.emit(result)
finished_emit ==
    /\ processing_thread.pc = "process_video"
    /\ stage = At("returned")
    /\ emitted' = Append(emitted, finished(result = "True"))
    /\ processing_thread' = [processing_thread EXCEPT !.pc = "over"]
    /\ UNCHANGED videoVars

\* except Exception: print(...); self.finished.emit(False)
run_except ==
    /\ processing_thread.pc = "except"
    /\ emitted' = Append(emitted, finished(FALSE))
    /\ processing_thread' = [processing_thread EXCEPT !.pc = "over"]
    /\ UNCHANGED videoVars

\* requestInterruption, called by the GUI thread while the thread runs
requestInterruption ==
    /\ processing_thread.pc # "over"
    /\ ~processing_thread._is_cancelled
    /\ processing_thread' = [processing_thread EXCEPT !._is_cancelled = TRUE]
    /\ UNCHANGED <<emitted, videoVars>>

----------------------------------------------------------------------------
(* Construction *)

\* no hash or similarity function is called directly
NoArgs == << >>

NoValue == [status |-> "none", value |-> << >>]

\* what __init__ creates, whatever the two parameters are
Created ==
    /\ image_cache = << >>
    /\ text_cache = << >>
    /\ ret = [op |-> "none", dup |-> FALSE]
    /\ hist = << >>
    /\ phase = "idle"
    /\ kind = "none"
    /\ input = << >>
    /\ cache0 = << >>
    /\ task = << >>
    /\ completed = << >>
    /\ out = << >>
    /\ thread_pool = "live"
    /\ vectorizer = Unfitted
    /\ cmp = [w \in 1..NumWorkers |-> NoComparison]
    /\ stage = At("idle")
    /\ world = NoWorld
    /\ reported = << >>
    /\ calls = << >>
    /\ result = "none"
    /\ extract_button = TRUE
    /\ stop_button = FALSE
    /\ threads = << >>
    /\ processing_thread = AtRun
    /\ emitted = << >>

\* the Deduplicator and the YouTubeProcessor after construction
Constructor ==
    /\ similarity_threshold \in Thresholds
    /\ cache_size \in 1..MaxCacheSize
    /\ Created

Init ==
    /\ Constructor
    /\ arg = NoArgs
    /\ answer = NoValue

(* Single-item calls made one at a time, in any number and order *)
NextSingle ==
    \/ \E image \in Frames : is_duplicate_image(image) /\ UNCHANGED <<hist, extVars>>
    \/ \E text \in Snippets : is_duplicate_text(text) /\ UNCHANGED <<hist, extVars>>

SpecSingle == Init /\ [][NextSingle]_vars

(* The calls of one kind made on a fresh Deduplicator, recorded in hist, up
   to cache_size + 2 of them *)
Record(k, item) ==
    /\ Len(hist) < cache_size + 2
    /\ \A i \in 1..Len(hist) : hist[i].kind = k
    /\ hist' = Append(hist, [kind |-> k, item |-> item])
    /\ UNCHANGED extVars

NextFifo ==
    \/ \E image \in Frames : is_duplicate_image(image) /\ Record("image", image)
    \/ \E text \in Snippets : is_duplicate_text(text) /\ Record("text", text)

SpecFifo == Init /\ [][NextFifo]_vars

----------------------------------------------------------------------------
(* The batch operations.  deduplicate_images / deduplicate_texts submit one
   is_duplicate_image / is_duplicate_text task per item to the thread pool
   and then read the futures in input order.  A task is a sequence of steps,
   each of which reads or writes the cache once; the steps of the tasks that
   the pool runs at the same time interleave.

   The for loop over cache.items() holds an OrderedDict iterator: it
   remembers the next key to fetch (none once the last entry was fetched, or
   when the cache was empty) and raises RuntimeError at a fetch when a key
   was added or removed since the loop began; assigning to a key that is
   present is no such change.  The shared TfidfVectorizer is fitted inside
   one comparison, which is one step here. *)

BatchFrames == {"white", "patch", "patch2"}

BatchSnippets == { <<"hello", "world">>, <<"Hello", "world", "!">>, << >> }

\* the lists of at most n items
ListsUpTo(S, n) == UNION {[1..m -> S] : m \in 0..n}

Queued == [pc |-> "queued", cur |-> 0, stale |-> FALSE, dup |-> FALSE]

\* the task has returned dup from is_duplicate_image / is_duplicate_text
Done(dup) == [pc |-> "done", cur |-> 0, stale |-> FALSE, dup |-> dup]

Cache == IF kind = "image" THEN image_cache ELSE text_cache

SetCache(od) ==
    IF kind = "image"
    THEN image_cache' = od /\ UNCHANGED text_cache
    ELSE text_cache' = od /\ UNCHANGED image_cache

TaskKey(i) == IF kind = "image" THEN ImageHashOf[input[i]] ELSE TextHash(input[i])

TaskMatch(i, entry) ==
    IF kind = "image"
    THEN ImageMatch(ImageHashOf[input[i]], entry)
    ELSE TextMatch(input[i], entry)

Running(i) == task[i].pc \notin {"queued", "done"}

\* the task is inside _process_image / _process_text
InProcess(i) == task[i].pc \in {"scan", "pop", "insert"}

\* task i moves to state t; when the step added or removed a key, the
\* iterators of the other tasks that still have an entry to fetch see the
\* OrderedDict as mutated
Step(i, t, mutated) ==
    task' = [j \in 1..Len(task) |->
                IF j = i THEN t
                ELSE IF mutated /\ task[j].pc = "scan" /\ task[j].cur # 0
                     THEN [task[j] EXCEPT !.stale = TRUE]
                     ELSE task[j]]

Finish(i, dup, mutated) ==
    /\ Step(i, Done(dup), mutated)
    /\ completed' = Append(completed, i)

\* the loops that submit the tasks
Submit(k, items) ==
    /\ phase = "idle"
    /\ thread_pool = "live" \/ Len(items) = 0
    /\ phase' = "running"
    /\ kind' = k
    /\ input' = items
    /\ cache0' = (IF k = "image" THEN image_cache ELSE text_cache)
    /\ task' = [i \in 1..Len(items) |-> Queued]
    /\ completed' = << >>
    /\ UNCHANGED <<out, cacheVars, configVars, ret, hist>>

deduplicate_images(images) == Submit("image", images)

deduplicate_texts(texts) == Submit("text", texts)

\* a free pool worker takes the oldest queued task
Dequeue(i) ==
    /\ phase = "running"
    /\ task[i].pc = "queued"
    /\ \A j \in 1..(i - 1) : task[j].pc # "queued"
    /\ Cardinality({j \in 1..Len(task) : Running(j)}) < NumWorkers
    /\ Step(i, [task[i] EXCEPT !.pc = "start"], FALSE)
    /\ UNCHANGED <<phase, kind, input, cache0, completed, out, cacheVars, configVars, ret, hist>>

\* the hash is computed and the for loop creates its iterator: the first
\* entry to fetch, or none for an empty cache
BeginScan(i) ==
    /\ phase = "running"
    /\ task[i].pc = "start"
    /\ ~Raises(kind, input[i])
    /\ Step(i, [pc |-> "scan", cur |-> IF Len(Cache) = 0 THEN 0 ELSE 1,
                stale |-> FALSE, dup |-> FALSE], FALSE)
    /\ UNCHANGED <<phase, kind, input, cache0, completed, out, cacheVars, configVars, ret, hist>>

\* computing the hash raises; the except clause returns False
TaskRaises(i) ==
    /\ phase = "running"
    /\ task[i].pc = "start"
    /\ Raises(kind, input[i])
    /\ Finish(i, ExceptReturn(kind).dup, FALSE)
    /\ UNCHANGED <<phase, kind, input, cache0, out, cacheVars, configVars, ret, hist>>

\* the loop fetches the next entry and compares
ScanEntry(i) ==
    /\ phase = "running"
    /\ task[i].pc = "scan"
    /\ task[i].cur # 0
    /\ ~task[i].stale
    /\ IF TaskMatch(i, Cache[task[i].cur])
       THEN Finish(i, TRUE, FALSE)
       ELSE /\ Step(i, [task[i] EXCEPT !.cur = IF @ < Len(Cache) THEN @ + 1 ELSE 0], FALSE)
            /\ UNCHANGED completed
    /\ UNCHANGED <<phase, kind, input, cache0, out, cacheVars, configVars, ret, hist>>

\* the fetch raises RuntimeError (OrderedDict mutated during iteration); the
\* except clause of is_duplicate_image / is_duplicate_text returns False
ScanRaises(i) ==
    /\ phase = "running"
    /\ task[i].pc = "scan"
    /\ task[i].cur # 0
    /\ task[i].stale
    /\ Finish(i, FALSE, FALSE)
    /\ UNCHANGED <<phase, kind, input, cache0, out, cacheVars, configVars, ret, hist>>

\* the loop is over; len(cache) >= cache_size is evaluated
CheckFull(i) ==
    /\ phase = "running"
    /\ task[i].pc = "scan"
    /\ task[i].cur = 0
    /\ Step(i, [task[i] EXCEPT !.pc = IF CacheFull(Cache) THEN "pop" ELSE "insert"], FALSE)
    /\ UNCHANGED <<phase, kind, input, cache0, completed, out, cacheVars, configVars, ret, hist>>

\* cache.popitem(last=False)
Pop(i) ==
    /\ phase = "running"
    /\ task[i].pc = "pop"
    /\ Len(Cache) > 0
    /\ SetCache(OdPopFirst(Cache))
    /\ Step(i, [task[i] EXCEPT !.pc = "insert"], TRUE)
    /\ UNCHANGED <<phase, kind, input, cache0, completed, out, configVars, ret, hist>>

\* popitem on a cache another task has emptied raises KeyError; the except
\* clause returns False
PopRaises(i) ==
    /\ phase = "running"
    /\ task[i].pc = "pop"
    /\ Len(Cache) = 0
    /\ Finish(i, FALSE, FALSE)
    /\ UNCHANGED <<phase, kind, input, cache0, out, cacheVars, configVars, ret, hist>>

\* cache[hash] = item; return False
Insert(i) ==
    /\ phase = "running"
    /\ task[i].pc = "insert"
    /\ SetCache(OdSet(Cache, TaskKey(i), input[i]))
    /\ Finish(i, FALSE, ~OdHas(Cache, TaskKey(i)))
    /\ UNCHANGED <<phase, kind, input, cache0, out, configVars, ret, hist>>

\* the items of the futures, in completion order, whose result is False
CollectAsCompleted(items, results, order) ==
    LET kept == SelectSeq(order, LAMBDA i : ~results[i].dup)
    IN  [n \in 1..Len(kept) |-> items[kept[n]]]

\* the items, in input order, whose future's result is False
Collect(items, results, order) ==
    LET kept == SelectSeq([i \in 1..Len(items) |-> i], LAMBDA i : ~results[i].dup)
    IN  [n \in 1..Len(kept) |-> items[kept[n]]]

\* the call returns the items without reading the futures
ReturnWithoutWaiting ==
    /\ phase = "running"
    /\ out' = input
    /\ phase' = "returned"
    /\ UNCHANGED <<kind, input, cache0, task, completed, cacheVars, configVars, ret, hist>>

\* every future.result() has returned; the call returns the kept items
Return ==
    /\ phase = "running"
    /\ \A i \in 1..Len(task) : task[i].pc = "done"
    /\ out' = Collect(input, task, completed)
    /\ phase' = "returned"
    /\ UNCHANGED <<kind, input, cache0, task, completed, cacheVars, configVars, ret, hist>>

\* an except clause that returns the items collected so far
BatchExceptReturnsUnique(items) == << >>

\* the except clause of deduplicate_images / deduplicate_texts: log, return
\* the argument
BatchExceptReturn(items) == items

\* thread_pool.submit raises RuntimeError (cannot schedule new futures after
\* shutdown) for the first item; the except clause returns
SubmitRaises(k, items) ==
    /\ phase = "idle"
    /\ thread_pool # "live"
    /\ Len(items) > 0
    /\ phase' = "returned"
    /\ kind' = k
    /\ input' = items
    /\ cache0' = (IF k = "image" THEN image_cache ELSE text_cache)
    /\ task' = << >>
    /\ completed' = << >>
    /\ out' = BatchExceptReturn(items)
    /\ UNCHANGED <<cacheVars, configVars, ret, hist, thread_pool>>

\* thread_pool.shutdown() and the clearing of both caches
__del__ ==
    /\ phase = "idle"
    /\ thread_pool = "live"
    /\ thread_pool' = "shutdown"
    /\ image_cache' = << >>
    /\ text_cache' = << >>
    /\ UNCHANGED <<configVars, batchVars, ret, hist>>

\* shutdown(wait=False): the call returns at once
PoolJoinedNoWait == TRUE

\* shutdown() joins the worker threads (wait=True is the default), and a
\* worker ends when the queue is empty: every submitted task has finished
PoolJoined == \A i \in 1..Len(task) : task[i].pc = "done"

\* __del__ called while a batch call may be running: thread_pool.shutdown()
\* is entered, the pool takes no new task
shutdown ==
    /\ thread_pool = "live"
    /\ thread_pool' = "joining"
    /\ UNCHANGED <<cacheVars, configVars, batchVars, ret, hist>>

\* shutdown() returns; self.image_cache.clear(); self.text_cache.clear()
clear ==
    /\ thread_pool = "joining"
    /\ PoolJoined
    /\ thread_pool' = "shutdown"
    /\ image_cache' = << >>
    /\ text_cache' = << >>
    /\ UNCHANGED <<configVars, batchVars, ret, hist>>

\* one batch call on a Deduplicator constructed with the default threshold
InitBatch == Init /\ similarity_threshold = DefaultThreshold

NextBatch ==
    \/ \E images \in ListsUpTo(BatchFrames, MaxBatch) : deduplicate_images(images) /\ UNCHANGED extVars
    \/ \E texts \in ListsUpTo(BatchSnippets, MaxBatch) : deduplicate_texts(texts) /\ UNCHANGED extVars
    \/ \E i \in 1..Len(task) : Dequeue(i) /\ UNCHANGED extVars
    \/ \E i \in 1..Len(task) : BeginScan(i) /\ UNCHANGED extVars
    \/ \E i \in 1..Len(task) : ScanEntry(i) /\ UNCHANGED extVars
    \/ \E i \in 1..Len(task) : ScanRaises(i) /\ UNCHANGED extVars
    \/ \E i \in 1..Len(task) : CheckFull(i) /\ UNCHANGED extVars
    \/ \E i \in 1..Len(task) : Pop(i) /\ UNCHANGED extVars
    \/ \E i \in 1..Len(task) : PopRaises(i) /\ UNCHANGED extVars
    \/ \E i \in 1..Len(task) : Insert(i) /\ UNCHANGED extVars
    \/ Return /\ UNCHANGED extVars

SpecBatch == InitBatch /\ [][NextBatch]_vars

(* One batch call whose items may be malformed, on a pool that may have
   been shut down before the call *)
FaultFrames == {"white", "patch"} \cup MalformedFrames

FaultSnippets == { <<"hello", "world">>, <<"Hello", "world", "!">> } \cup MalformedSnippets

NextFault ==
    \/ __del__ /\ UNCHANGED <<vectorizerVars, videoVars, pureVars, guiVars>>
    \/ \E images \in ListsUpTo(FaultFrames, MaxBatch) :
           deduplicate_images(images) /\ UNCHANGED extVars
    \/ \E texts \in ListsUpTo(FaultSnippets, MaxBatch) :
           deduplicate_texts(texts) /\ UNCHANGED extVars
    \/ \E images \in ListsUpTo(FaultFrames, MaxBatch) :
           SubmitRaises("image", images) /\ UNCHANGED <<vectorizerVars, videoVars, pureVars, guiVars>>
    \/ \E texts \in ListsUpTo(FaultSnippets, MaxBatch) :
           SubmitRaises("text", texts) /\ UNCHANGED <<vectorizerVars, videoVars, pureVars, guiVars>>
    \/ \E i \in 1..Len(task) : Dequeue(i) /\ UNCHANGED extVars
    \/ \E i \in 1..Len(task) : TaskRaises(i) /\ UNCHANGED extVars
    \/ \E i \in 1..Len(task) : BeginScan(i) /\ UNCHANGED extVars
    \/ \E i \in 1..Len(task) : ScanEntry(i) /\ UNCHANGED extVars
    \/ \E i \in 1..Len(task) : ScanRaises(i) /\ UNCHANGED extVars
    \/ \E i \in 1..Len(task) : CheckFull(i) /\ UNCHANGED extVars
    \/ \E i \in 1..Len(task) : Pop(i) /\ UNCHANGED extVars
    \/ \E i \in 1..Len(task) : PopRaises(i) /\ UNCHANGED extVars
    \/ \E i \in 1..Len(task) : Insert(i) /\ UNCHANGED extVars
    \/ Return /\ UNCHANGED extVars

SpecFault == InitBatch /\ [][NextFault]_vars

(* One batch call and the disposal of the Deduplicator, which may begin
   before, during or after the call *)
DisposeFrames == {"white", "patch"}

DisposeSnippets == { <<"hello", "world">>, <<"stock", "market">> }

NextDispose ==
    \/ shutdown /\ UNCHANGED <<vectorizerVars, videoVars, pureVars, guiVars>>
    \/ clear /\ UNCHANGED <<vectorizerVars, videoVars, pureVars, guiVars>>
    \/ \E images \in ListsUpTo(DisposeFrames, MaxBatch) :
           deduplicate_images(images) /\ UNCHANGED extVars
    \/ \E texts \in ListsUpTo(DisposeSnippets, MaxBatch) :
           deduplicate_texts(texts) /\ UNCHANGED extVars
    \/ \E images \in ListsUpTo(DisposeFrames, MaxBatch) :
           SubmitRaises("image", images) /\ UNCHANGED <<vectorizerVars, videoVars, pureVars, guiVars>>
    \/ \E texts \in ListsUpTo(DisposeSnippets, MaxBatch) :
           SubmitRaises("text", texts) /\ UNCHANGED <<vectorizerVars, videoVars, pureVars, guiVars>>
    \/ \E i \in 1..Len(task) : Dequeue(i) /\ UNCHANGED extVars
    \/ \E i \in 1..Len(task) : BeginScan(i) /\ UNCHANGED extVars
    \/ \E i \in 1..Len(task) : ScanEntry(i) /\ UNCHANGED extVars
    \/ \E i \in 1..Len(task) : ScanRaises(i) /\ UNCHANGED extVars
    \/ \E i \in 1..Len(task) : CheckFull(i) /\ UNCHANGED extVars
    \/ \E i \in 1..Len(task) : Pop(i) /\ UNCHANGED extVars
    \/ \E i \in 1..Len(task) : PopRaises(i) /\ UNCHANGED extVars
    \/ \E i \in 1..Len(task) : Insert(i) /\ UNCHANGED extVars
    \/ Return /\ UNCHANGED extVars

SpecDispose == InitBatch /\ [][NextDispose]_vars

\* a step of a pool worker on one of the tasks
WorkerStep ==
    /\ \E i \in 1..Len(task) :
          \/ Dequeue(i)
          \/ BeginScan(i)
          \/ ScanEntry(i)
          \/ ScanRaises(i)
          \/ CheckFull(i)
          \/ Pop(i)
          \/ PopRaises(i)
          \/ Insert(i)
    /\ UNCHANGED extVars

(* One batch call over two dissimilar items of each kind *)
NextReturns ==
    \/ \E images \in ListsUpTo(DisposeFrames, MaxBatch) :
           deduplicate_images(images) /\ UNCHANGED extVars
    \/ \E texts \in ListsUpTo(DisposeSnippets, MaxBatch) :
           deduplicate_texts(texts) /\ UNCHANGED extVars
    \/ WorkerStep
    \/ Return /\ UNCHANGED extVars

(* The pool workers are threads of the operating system and the caller is
   blocked in future.result(): a worker that can take a step takes one, and
   the caller returns once the last future is done *)
SpecReturnsFair ==
    /\ InitBatch
    /\ [][NextReturns]_vars
    /\ WF_vars(WorkerStep)
    /\ WF_vars(Return /\ UNCHANGED extVars)

(* Single-item calls of both kinds in any order, recorded in hist, and
   then one batch call of either kind on the caches they left *)
KindFrames == {"white", "half"}

KindSnippets == { <<"hello", "world">>, <<"stock", "market">> }

RecordAny(k, item) ==
    /\ Len(hist) <= cache_size
    /\ hist' = Append(hist, [kind |-> k, item |-> item])
    /\ UNCHANGED extVars

NextKinds ==
    \/ \E image \in KindFrames : is_duplicate_image(image) /\ RecordAny("image", image)
    \/ \E text \in KindSnippets : is_duplicate_text(text) /\ RecordAny("text", text)
    \/ \E images \in ListsUpTo(KindFrames, MaxUsedBatch) :
           deduplicate_images(images) /\ UNCHANGED extVars
    \/ \E texts \in ListsUpTo(KindSnippets, MaxUsedBatch) :
           deduplicate_texts(texts) /\ UNCHANGED extVars
    \/ \E i \in 1..Len(task) : Dequeue(i) /\ UNCHANGED extVars
    \/ \E i \in 1..Len(task) : BeginScan(i) /\ UNCHANGED extVars
    \/ \E i \in 1..Len(task) : ScanEntry(i) /\ UNCHANGED extVars
    \/ \E i \in 1..Len(task) : ScanRaises(i) /\ UNCHANGED extVars
    \/ \E i \in 1..Len(task) : CheckFull(i) /\ UNCHANGED extVars
    \/ \E i \in 1..Len(task) : Pop(i) /\ UNCHANGED extVars
    \/ \E i \in 1..Len(task) : PopRaises(i) /\ UNCHANGED extVars
    \/ \E i \in 1..Len(task) : Insert(i) /\ UNCHANGED extVars
    \/ Return /\ UNCHANGED extVars

SpecKinds == InitBatch /\ [][NextKinds]_vars

(* calculate_image_similarity called directly on two strings of '0' / '1' *)
Bit == {"0", "1"}

Bitstrings == UNION {[1..n -> Bit] : n \in 0..MaxBits}

\* the call returns the value, or raises when the division does
Outcome(value) ==
    [status |-> IF value = ZeroDivisionError THEN "raised" ELSE "returned",
     value |-> value]

CallImageSimilarity ==
    /\ answer.status = "none"
    /\ answer' = Outcome(calculate_image_similarity(arg[1], arg[2]))
    /\ UNCHANGED <<arg, cacheVars, configVars, batchVars, ret, hist,
                   poolVars, vectorizerVars, videoVars, guiVars>>

InitImageSimilarity ==
    /\ Constructor
    /\ similarity_threshold = DefaultThreshold
    /\ arg \in Bitstrings \X Bitstrings
    /\ answer = [status |-> "none", value |-> [num |-> 0, den |-> 1]]

NextImageSimilarity == CallImageSimilarity

SpecImageSimilarity == InitImageSimilarity /\ [][NextImageSimilarity]_vars

(* The thresholding of calculate_image_hash applied to a luminance grid
   and to the same grid with a constant added to every cell *)
Levels == {0, 100, 120, 200, 255}

Regions == {{}, 1..4, 1..20, 1..32, 33..64, {28, 29, 36, 37}}

\* the grids of two luminance levels, and a grid in which every cell has
\* its own level
LuminanceGrids ==
    {[i \in 1..HashLen |-> IF i \in r THEN lo ELSE hi] :
        r \in Regions, lo \in Levels, hi \in Levels}
    \cup {[i \in 1..HashLen |-> 2 * i + 60]}

Recolor(g, c) == [i \in 1..HashLen |-> g[i] + c]

\* no cell leaves the range of an 8-bit pixel
Unclipped(g) == \A i \in 1..HashLen : 0 <= g[i] /\ g[i] <= White

CallThreshold ==
    /\ answer.status = "none"
    /\ answer' = [status |-> "returned", value |-> Threshold(Recolor(arg[1], arg[2]))]
    /\ UNCHANGED <<arg, cacheVars, configVars, batchVars, ret, hist,
                   poolVars, vectorizerVars, videoVars, guiVars>>

InitImageHash ==
    /\ Constructor
    /\ similarity_threshold = DefaultThreshold
    /\ arg \in {p \in LuminanceGrids \X (-MaxShift..MaxShift) : Unclipped(Recolor(p[1], p[2]))}
    /\ answer = [status |-> "none", value |-> << >>]

NextImageHash == CallThreshold

SpecImageHash == InitImageHash /\ [][NextImageHash]_vars

(* Frames of completely different content: single-item calls recorded in
   hist, and then one deduplicate_images call *)
ContrastFrames == {"white", "black", "half"}

\* the single-item calls made before the batch call, fewer than MaxUsedBatch
RecordFew(k, item) ==
    /\ Len(hist) < MaxUsedBatch
    /\ hist' = Append(hist, [kind |-> k, item |-> item])
    /\ UNCHANGED extVars

NextContrast ==
    \/ \E image \in ContrastFrames : is_duplicate_image(image) /\ RecordFew("image", image)
    \/ \E images \in ListsUpTo(ContrastFrames, MaxUsedBatch) :
           deduplicate_images(images) /\ UNCHANGED extVars
    \/ \E i \in 1..Len(task) : Dequeue(i) /\ UNCHANGED extVars
    \/ \E i \in 1..Len(task) : BeginScan(i) /\ UNCHANGED extVars
    \/ \E i \in 1..Len(task) : ScanEntry(i) /\ UNCHANGED extVars
    \/ \E i \in 1..Len(task) : ScanRaises(i) /\ UNCHANGED extVars
    \/ \E i \in 1..Len(task) : CheckFull(i) /\ UNCHANGED extVars
    \/ \E i \in 1..Len(task) : Pop(i) /\ UNCHANGED extVars
    \/ \E i \in 1..Len(task) : PopRaises(i) /\ UNCHANGED extVars
    \/ \E i \in 1..Len(task) : Insert(i) /\ UNCHANGED extVars
    \/ Return /\ UNCHANGED extVars

SpecContrast == InitBatch /\ [][NextContrast]_vars

(* The clicks on the buttons of the main window and the threads they start *)
windowOtherVars ==
    <<similarity_threshold, cache_size, image_cache, text_cache, ret, hist,
      phase, kind, input, cache0, task, completed, out, thread_pool,
      vectorizerVars, videoVars, pureVars>>

NextWindow ==
    \/ \E valid \in BOOLEAN : start_processing(valid) /\ UNCHANGED windowOtherVars
    \/ stop_processing /\ UNCHANGED windowOtherVars
    \/ \E i \in 1..Len(threads) : run(i) /\ UNCHANGED windowOtherVars
    \/ \E i \in 1..Len(threads) : processing_finished(i) /\ UNCHANGED windowOtherVars

SpecWindow == InitBatch /\ [][NextWindow]_vars

(* Batch calls on images made one after the other on the same
   Deduplicator: from the second call on the image cache holds what the
   earlier calls left *)
UsedFrames == {"white", "patch", "right"}

\* the caller has the result of the call; the Deduplicator is idle again
NextCall ==
    /\ phase = "returned"
    /\ phase' = "idle"
    /\ kind' = "none"
    /\ input' = << >>
    /\ cache0' = << >>
    /\ task' = << >>
    /\ completed' = << >>
    /\ out' = << >>
    /\ UNCHANGED <<cacheVars, configVars, ret, hist, extVars>>

NextUsed ==
    \/ \E images \in ListsUpTo(UsedFrames, MaxUsedBatch) :
           deduplicate_images(images) /\ UNCHANGED extVars
    \/ \E i \in 1..Len(task) : Dequeue(i) /\ UNCHANGED extVars
    \/ \E i \in 1..Len(task) : BeginScan(i) /\ UNCHANGED extVars
    \/ \E i \in 1..Len(task) : ScanEntry(i) /\ UNCHANGED extVars
    \/ \E i \in 1..Len(task) : ScanRaises(i) /\ UNCHANGED extVars
    \/ \E i \in 1..Len(task) : CheckFull(i) /\ UNCHANGED extVars
    \/ \E i \in 1..Len(task) : Pop(i) /\ UNCHANGED extVars
    \/ \E i \in 1..Len(task) : PopRaises(i) /\ UNCHANGED extVars
    \/ \E i \in 1..Len(task) : Insert(i) /\ UNCHANGED extVars
    \/ Return /\ UNCHANGED extVars
    \/ NextCall

SpecUsed == InitBatch /\ [][NextUsed]_vars

(* The comparisons that the pool workers run at the same time: each worker
   compares a text with a cached text, as the tasks of one deduplicate_texts
   call do when they scan the text cache *)
ComparedPairs ==
    { << <<"Hello", "world", "!">>, <<"hello", "world">> >>,
      << <<"hello", "cat">>, <<"hello", "world">> >>,
      << <<"hello", "cat">>, <<"cat", "world">> >>,
      << <<"stock", "market">>, <<"hello", "world">> >>,
      << << >>, <<"the", "is">> >> }

otherVars ==
    <<similarity_threshold, cache_size, image_cache, text_cache, ret, hist,
      phase, kind, input, cache0, task, completed, out, thread_pool, videoVars,
      pureVars, guiVars>>

NextVectorizer ==
    \/ \E w \in 1..NumWorkers : \E p \in ComparedPairs :
           CallSimilarity(w, p[1], p[2]) /\ UNCHANGED otherVars
    \/ \E w \in 1..NumWorkers : NewTransformer(w) /\ UNCHANGED otherVars
    \/ \E w \in 1..NumWorkers : Fit(w) /\ UNCHANGED otherVars
    \/ \E w \in 1..NumWorkers : Transform(w) /\ UNCHANGED otherVars
    \/ \E w \in 1..NumWorkers : ReturnSimilarity(w) /\ UNCHANGED otherVars

SpecVectorizer == InitBatch /\ [][NextVectorizer]_vars

(* One run of process_video *)
dedupVars ==
    <<similarity_threshold, cache_size, image_cache, text_cache, ret, hist,
      phase, kind, input, cache0, task, completed, out, thread_pool,
      vectorizerVars, pureVars, guiVars>>

NextVideo ==
    \/ stage = At("idle") /\ \E w \in Worlds : process_video(w) /\ UNCHANGED dedupVars
    \/ \E p \in Checkpoints : _update_progress(p) /\ UNCHANGED dedupVars
    \/ _initialize_directories /\ UNCHANGED dedupVars
    \/ _download_youtube_video /\ UNCHANGED dedupVars
    \/ extract_frames /\ UNCHANGED dedupVars
    \/ extract_text /\ UNCHANGED dedupVars
    \/ create_document /\ UNCHANGED dedupVars
    \/ cleanup /\ UNCHANGED dedupVars

SpecVideo == InitBatch /\ [][NextVideo]_vars

(* ImageExtractor.extract_slides (src/src/content/image_extractor.py).  A
   frame is a row of gray levels, the picture cv2.cvtColor makes of it;
   the rows used have a whole-number mean. *)
SlidePixels ==
    [ title      |-> <<0, 20, 0, 20>>,
      title_edit |-> <<0, 20, 10, 26>>,
      chart      |-> <<20, 0, 0, 20>>,
      photo      |-> <<0, 0, 40, 40>>,
      faint      |-> <<10, 12, 10, 12>> ]

WellFormedSlideFrames == {"title", "title_edit", "chart", "photo", "faint"}

SlideFrames == WellFormedSlideFrames \cup MalformedFrames

Dot(a, b) == SumSeq([i \in 1..Len(a) |-> a[i] * b[i]], 1)

\* the gray levels less their mean
Dev(gray) == [i \in 1..Len(gray) |-> gray[i] - SumSeq(gray, 1) \div Len(gray)]

\* cv2.matchTemplate(gray1, gray2, cv2.TM_CCOEFF_NORMED)[0][0] for two
\* pictures of one size: the value is num / sqrt(sq), and 0 when a
\* picture has no variation
matchTemplate(gray1, gray2) ==
    LET d1 == Dev(gray1)
        d2 == Dev(gray2)
        sq == Dot(d1, d1) * Dot(d2, d2)
    IN  IF sq = 0 THEN [num |-> 0, sq |-> 1] ELSE [num |-> Dot(d1, d2), sq |-> sq]

\* ImageExtractor.calculate_similarity: 0.0 when cv2.cvtColor raises
calculate_similarity(frame1, frame2) ==
    IF CvtColorRaises(frame1) \/ CvtColorRaises(frame2)
    THEN [num |-> 0, sq |-> 1]
    ELSE matchTemplate(SlidePixels[frame1], SlidePixels[frame2])

SlideSimOf ==
    [p \in SlideFrames \X SlideFrames |-> calculate_similarity(p[1], p[2])] @@ << >>

\* similarity > threshold and similarity < threshold, for a threshold > 0
SimGT(similarity, threshold) ==
    /\ similarity.num > 0
    /\ (similarity.num * threshold.den) * (similarity.num * threshold.den)
           > threshold.num * threshold.num * similarity.sq

SimLT(similarity, threshold) ==
    \/ similarity.num <= 0
    \/ (similarity.num * threshold.den) * (similarity.num * threshold.den)
           < threshold.num * threshold.num * similarity.sq

\* cv2.Laplacian(gray, cv2.CV_64F) of a one-row picture, the border
\* reflected
Laplacian(gray) ==
    [i \in 1..Len(gray) |->
        gray[IF i = 1 THEN 2 ELSE i - 1]
            + gray[IF i = Len(gray) THEN Len(gray) - 1 ELSE i + 1]
            - 2 * gray[i]]

Min(a, b) == IF a <= b THEN a ELSE b

\* ImageExtractor.calculate_quality: min(1.0, laplacian.var() / 1000.0),
\* and 0.0 when cv2.cvtColor raises
calculate_quality(image) ==
    IF CvtColorRaises(image) THEN [num |-> 0, den |-> 1]
    ELSE LET lap == Laplacian(SlidePixels[image])
             n == Len(lap)
             \* n * n times the variance
             var == n * Dot(lap, lap) - SumSeq(lap, 1) * SumSeq(lap, 1)
         IN  [num |-> Min(var, 1000 * n * n), den |-> 1000 * n * n]

QualityOf == [f \in SlideFrames |-> calculate_quality(f)] @@ << >>

\* self.slide_threshold, the default of __init__
slide_threshold == [num |-> 19, den |-> 20]

min_frame_gap == 10

\* the 0.85 of the comparison with the recent slides
UniqueThreshold == [num |-> 17, den |-> 20]

\* slides[-n:]
LastOf(s, n) == SubSeq(s, IF Len(s) > n THEN Len(s) - n + 1 ELSE 1, Len(s))

\* the comparison with the newest slide alone
IsUniqueAgainstNewest(slides, frame) ==
    \A k \in 1..Len(LastOf(slides, 1)) :
        ~SimGT(SlideSimOf[<<LastOf(slides, 1)[k], frame>>], UniqueThreshold)

\* for existing_slide in slides[-3:]: similarity > 0.85 makes is_unique False
IsUnique(slides, frame) ==
    \A k \in 1..Len(LastOf(slides, 3)) :
        ~SimGT(SlideSimOf[<<LastOf(slides, 3)[k], frame>>], UniqueThreshold)

\* the locals of extract_slides before the loop; accepted holds the
\* positions of the frames in slides
BeforeLoop == [slides |-> << >>, accepted |-> << >>, prev_frame |-> "None", frame_counter |-> 0]

\* the body of the for loop for the frame at position i
Body(s, frame, i) ==
    IF s.prev_frame = "None"
    THEN [slides |-> Append(s.slides, frame), accepted |-> Append(s.accepted, i),
          prev_frame |-> frame, frame_counter |-> s.frame_counter]
    ELSE LET c == s.frame_counter + 1
         IN  IF /\ c >= min_frame_gap
                /\ SimLT(SlideSimOf[<<s.prev_frame, frame>>], slide_threshold)
                /\ QualityOf[frame].num * 5 > QualityOf[frame].den
                /\ IsUnique(s.slides, frame)
             THEN [slides |-> Append(s.slides, frame), accepted |-> Append(s.accepted, i),
                   prev_frame |-> frame, frame_counter |-> 0]
             ELSE [s EXCEPT !.frame_counter = c]

RECURSIVE ForFrameIn(_, _, _)
ForFrameIn(frames, i, s) ==
    IF i > Len(frames) THEN s
    ELSE ForFrameIn(frames, i + 1, Body(s, frames[i], i))

\* `if not frames` raises ValueError for an array of frames in place of a
\* list
NotFramesRaises(frames) == frames.type = "ndarray"

\* extract_slides: [] for an empty list and from the except clause
extract_slides(frames) ==
    IF NotFramesRaises(frames) \/ Len(frames.items) = 0
    THEN [slides |-> << >>, accepted |-> << >>]
    ELSE LET s == ForFrameIn(frames.items, 1, BeforeLoop)
         IN  [slides |-> s.slides, accepted |-> s.accepted]

(* extract_slides called on lists made of up to MaxRuns runs of one frame *)
MaxRuns == 3

RunLengths == {1, min_frame_gap - 1, min_frame_gap}

Run(frame, n) == [i \in 1..n |-> frame]

RECURSIVE Runs(_)
Runs(n) ==
    IF n = 0 THEN { << >> }
    ELSE Runs(n - 1) \cup
         { r \o Run(f, l) : r \in {x \in Runs(n - 1) : n = 1 \/ Len(x) > 0},
                            f \in SlideFrames, l \in RunLengths }

SlideInputs ==
    {[type |-> "list", items |-> r] : r \in Runs(MaxRuns)}
        \cup {[type |-> "ndarray", items |-> Run(f, 2)] : f \in WellFormedSlideFrames}

CallExtractSlides ==
    /\ answer.status = "none"
    /\ answer' = [status |-> "returned", value |-> extract_slides(arg[1])]
    /\ UNCHANGED <<arg, cacheVars, configVars, batchVars, ret, hist,
                   poolVars, vectorizerVars, videoVars, guiVars>>

InitSlides ==
    /\ Created
    /\ similarity_threshold = DefaultThreshold
    /\ cache_size = MaxCacheSize
    /\ arg \in {<<frames>> : frames \in SlideInputs}
    /\ answer = [status |-> "none", value |-> [slides |-> << >>, accepted |-> << >>]]

NextSlides == CallExtractSlides

SpecSlides == InitSlides /\ [][NextSlides]_vars

(* One run of a ProcessingThread, with a stop request at any moment *)
threadOtherVars ==
    <<similarity_threshold, cache_size, image_cache, text_cache, ret, hist,
      phase, kind, input, cache0, task, completed, out, thread_pool,
      vectorizerVars, pureVars, extract_button, stop_button, threads>>

\* set_progress_callback(self._update_progress): the callback is set
ThreadWorlds == {w \in Worlds : w.callback = [set |-> TRUE, stop |-> Never]}

NextThread ==
    \/ \E w \in ThreadWorlds : \E raises \in BOOLEAN :
           run_try(w, raises) /\ UNCHANGED threadOtherVars
    \/ _is_cancelled_check /\ UNCHANGED threadOtherVars
    \/ progress_emit /\ UNCHANGED threadOtherVars
    \/ _initialize_directories /\ UNCHANGED dedupVars
    \/ _download_youtube_video /\ UNCHANGED dedupVars
    \/ extract_frames /\ UNCHANGED dedupVars
    \/ extract_text /\ UNCHANGED dedupVars
    \/ create_document /\ UNCHANGED dedupVars
    \/ remove_video /\ UNCHANGED threadOtherVars
    \/ finished_emit /\ UNCHANGED threadOtherVars
    \/ run_except /\ UNCHANGED threadOtherVars
    \/ requestInterruption /\ UNCHANGED threadOtherVars

SpecThread == InitBatch /\ [][NextThread]_vars

(* Single-item calls of one kind, malformed items among them, recorded in
   hist *)
NextMalformed ==
    \/ \E image \in FaultFrames : is_duplicate_image(image) /\ Record("image", image)
    \/ \E text \in FaultSnippets \cup {<< >>} :
           is_duplicate_text(text) /\ Record("text", text)

SpecMalformed == Init /\ [][NextMalformed]_vars

(* Single-item calls on a Deduplicator constructed with any parameters:
   __init__ stores similarity_threshold and cache_size as they are given *)
MaxCalls == 3

MinCacheSize == -1

One == [num |-> 1, den |-> 1]

AnyThresholds ==
    Thresholds \cup {[num |-> 0, den |-> 1], One, [num |-> 11, den |-> 10]}

ConfigFrames == {"white", "patch", "half"} \cup MalformedFrames

ConfigSnippets ==
    { <<"hello", "world">>, <<"hello", "cat">>, <<"the", "is">> }
        \cup MalformedSnippets

InitConfig ==
    /\ similarity_threshold \in AnyThresholds
    /\ cache_size \in MinCacheSize..MaxCacheSize
    /\ Created
    /\ arg = NoArgs
    /\ answer = NoValue

RecordCall(k, item) ==
    /\ Len(hist) < MaxCalls
    /\ hist' = Append(hist, [kind |-> k, item |-> item])
    /\ UNCHANGED extVars

NextConfig ==
    \/ \E image \in ConfigFrames : is_duplicate_image(image) /\ RecordCall("image", image)
    \/ \E text \in ConfigSnippets : is_duplicate_text(text) /\ RecordCall("text", text)

SpecConfig == InitConfig /\ [][NextConfig]_vars

----------------------------------------------------------------------------
(* Vocabulary of the properties *)

\* sim >= thr for an image similarity and for a squared text similarity
Reaches(sim, thr) == sim.num * thr.den >= thr.num * sim.den

ReachesSq(sim, thr) == sim.num * thr.den * thr.den >= thr.num * thr.num * sim.den

\* items x and y of kind k have similarity >= similarity_threshold
Similar(k, x, y) ==
    IF k = "image"
    THEN Reaches(ImageSimOf[<<ImageHashOf[x], ImageHashOf[y]>>], similarity_threshold)
    ELSE ReachesSq(TextSimOf[<<x, y>>], similarity_threshold)

CacheOf(k) == IF k = "image" THEN image_cache ELSE text_cache

Vals(od) == [i \in 1..Len(od) |-> od[i].val]

EntryOf(k, x) ==
    IF k = "image"
    THEN [key |-> ImageHashOf[x], val |-> x]
    ELSE [key |-> TextHash(x), val |-> x]

\* the insert of section 4.3: evict the oldest entry of a full cache, then
\* add the new entry at the newest position
FifoInsert(od, e) == Append(IF Len(od) >= cache_size THEN Tail(od) ELSE od, e)

Items == [i \in 1..Len(hist) |-> hist[i].item]

\* the step is a recorded call; Presented is its item, PresentedKind its kind
Called == Len(hist') = Len(hist) + 1

Presented == hist'[Len(hist')].item

PresentedKind == hist'[Len(hist')].kind

Distinct(items) ==
    \A i, j \in 1..Len(items) : i # j => items[i] # items[j]

MutuallyNonSimilar(k, items) ==
    \A i, j \in 1..Len(items) : i # j => ~Similar(k, items[i], items[j])

----------------------------------------------------------------------------
(* C3: after any sequence of single-item calls of both kinds, made one at a
   time, neither cache holds more than cache_size entries. *)
CacheSizeBounded ==
    /\ Len(image_cache) <= cache_size
    /\ Len(text_cache) <= cache_size

\* both caches are full at the largest capacity and the last call inserted
CacheSizeBoundedWitness ==
    /\ cache_size = MaxCacheSize
    /\ Len(image_cache) = cache_size
    /\ Len(text_cache) = cache_size
    /\ ret.op # "none"
    /\ ~ret.dup

(* C6: a single-item call returns 'duplicate' if and only if some entry of
   the whole cache of its kind has similarity >= similarity_threshold with
   the candidate; a similarity equal to the threshold counts. *)
DuplicateIffSomeEntryMatches ==
    [][Called =>
        (ret'.dup <=>
            \E i \in 1..Len(CacheOf(PresentedKind)) :
                Similar(PresentedKind, Presented, CacheOf(PresentedKind)[i].val))]_vars

\* threshold 3/4; "quarter" differs from the oldest entry "patch" in 16 of
\* the 64 bits (similarity exactly 3/4) and is reported a duplicate
DuplicateIffSomeEntryMatchesWitness ==
    /\ similarity_threshold = [num |-> 3, den |-> 4]
    /\ Items = <<"patch", "white", "quarter">>
    /\ Vals(image_cache) = <<"patch", "white">>
    /\ ret = [op |-> "image", dup |-> TRUE]

(* C7: whenever a single-item call returns 'unique', the cache afterwards is
   the FIFO insert of the candidate into the cache before the call, for
   every snippet, one equal to a cached snippet of self-similarity 0
   included. *)
UniqueIsFifoInsert ==
    [][(Called /\ ~ret'.dup) =>
        IF PresentedKind = "image"
        THEN image_cache' = FifoInsert(image_cache, EntryOf("image", Presented))
        ELSE text_cache' = FifoInsert(text_cache, EntryOf("text", Presented))]_vars

(* C8, as amended: cache_size + 1 distinct, mutually non-similar items
   presented one at a time to a fresh Deduplicator leave exactly the last
   cache_size of them in the cache, in order (the first one was evicted);
   presenting the first item again is 'unique', and presenting one of the
   others again is 'duplicate' exactly when that item is similar to itself
   (every frame is, a snippet is unless it has no term outside the stop
   list). *)
FifoFilled(k) ==
    /\ Len(hist) = cache_size + 1
    /\ hist[1].kind = k
    /\ Distinct(Items)
    /\ MutuallyNonSimilar(k, Items)

FifoEvictsFirstInserted ==
    [][\A k \in {"image", "text"} : FifoFilled(k) =>
        /\ Vals(CacheOf(k)) = Tail(Items)
        /\ Called =>
            /\ Presented = Items[1] => ~ret'.dup
            /\ Presented \in Range(Tail(Items)) =>
                   (ret'.dup <=> Similar(k, Presented, Presented))]_vars

\* the first of cache_size + 1 such frames, presented again, is 'unique'
FifoEvictsFirstInsertedWitness ==
    /\ cache_size = MaxCacheSize
    /\ Len(hist) = cache_size + 2
    /\ hist[1].kind = "image"
    /\ Distinct(SubSeq(Items, 1, cache_size + 1))
    /\ MutuallyNonSimilar("image", SubSeq(Items, 1, cache_size + 1))
    /\ Items[cache_size + 2] = Items[1]
    /\ ~ret.dup
    /\ Vals(image_cache) = SubSeq(Items, 3, cache_size + 2)

(* C8, as claimed: ... and presenting any of the other cache_size items
   again is 'duplicate'. *)
FifoOthersAlwaysDuplicate ==
    [][\A k \in {"image", "text"} : FifoFilled(k) =>
        /\ Vals(CacheOf(k)) = Tail(Items)
        /\ Called =>
            /\ Presented = Items[1] => ~ret'.dup
            /\ Presented \in Range(Tail(Items)) => ret'.dup]_vars

(* C9, as amended: with cache_size = 2, after three distinct, mutually
   dissimilar snippets A, B, C and then A again, the fourth call returns
   'unique' and the text cache holds C and A, in this order. *)
OverflowScenario ==
    /\ cache_size = 2
    /\ Len(hist) = 4
    /\ hist[1].kind = "text"
    /\ Distinct(SubSeq(Items, 1, 3))
    /\ MutuallyNonSimilar("text", SubSeq(Items, 1, 3))
    /\ Items[4] = Items[1]

OverflowKeepsNewestTwo ==
    OverflowScenario =>
        /\ ret = [op |-> "text", dup |-> FALSE]
        /\ Vals(text_cache) = <<Items[3], Items[1]>>

OverflowKeepsNewestTwoWitness ==
    /\ OverflowScenario
    /\ Items = << <<"hello", "world">>, <<"stock", "market">>, << >>, <<"hello", "world">> >>
    /\ Vals(text_cache) = << << >>, <<"hello", "world">> >>

(* C9, as claimed: ... and the text cache then holds B, C and A. *)
OverflowHoldsAllThree ==
    OverflowScenario =>
        /\ ret = [op |-> "text", dup |-> FALSE]
        /\ Range(Vals(text_cache)) = {Items[2], Items[3], Items[1]}

(* C10: a single-item call that returns 'duplicate' leaves both caches
   exactly as they were: no entry is added, removed or moved. *)
DuplicateLeavesCachesUnchanged ==
    [][(phase = "idle" /\ phase' = "idle" /\ ret'.dup) =>
        /\ image_cache' = image_cache
        /\ text_cache' = text_cache]_vars

\* a duplicate verdict on a full image cache whose oldest entry "patch" is
\* the only one "patch2" matches: the entry has not moved
DuplicateLeavesCachesUnchangedWitness ==
    /\ ret = [op |-> "image", dup |-> TRUE]
    /\ Len(image_cache) = cache_size
    /\ cache_size >= 2
    /\ image_cache[1].val = "patch"
    /\ \A i \in 2..Len(image_cache) : ~Similar("image", "patch2", image_cache[i].val)
    /\ Len(text_cache) > 0

----------------------------------------------------------------------------
(* The batch call against the single-item calls made one at a time *)

\* the items of items[i..] that is_duplicate_image / is_duplicate_text,
\* called one at a time in input order on cache od, reports 'unique'
RECURSIVE KeptInOrder(_, _, _, _)
KeptInOrder(k, od, items, i) ==
    IF i > Len(items) THEN << >>
    ELSE LET r == IF k = "image"
                  THEN _process_image(od, items[i], ImageHashOf[items[i]])
                  ELSE _process_text(od, items[i], TextHash(items[i]))
             rest == KeptInOrder(k, r.cache, items, i + 1)
         IN  IF r.dup THEN rest ELSE <<items[i]>> \o rest

\* s is t with some elements left out
RECURSIVE IsSubsequence(_, _)
IsSubsequence(s, t) ==
    IF s = << >> THEN TRUE
    ELSE IF t = << >> THEN FALSE
    ELSE IF Head(s) = Head(t) THEN IsSubsequence(Tail(s), Tail(t))
    ELSE IsSubsequence(s, Tail(t))

(* C1: under every scheduling of the pool workers, the batch call returns
   exactly the items that the single-item calls, made one at a time in input
   order from the cache at the start of the call, report 'unique'. *)
BatchEqualsOneAtATime ==
    phase = "returned" => out = KeptInOrder(kind, cache0, input, 1)

(* C2: during a batch call no two pool workers are inside _process_image
   (or _process_text) of the same cache at the same time. *)
OneWorkerInProcess ==
    Cardinality({i \in 1..Len(task) : InProcess(i)}) <= 1

(* C4: during and after a batch call, under every interleaving of the pool
   workers, neither cache holds more than cache_size entries. *)
CacheSizeBoundedInBatch ==
    phase # "idle" =>
        /\ Len(image_cache) <= cache_size
        /\ Len(text_cache) <= cache_size

(* C5: under every worker scheduling the list a batch call returns is a
   subsequence of its input: input elements, none more often than in the
   input, in their original relative order. *)
BatchReturnsSubsequence ==
    phase = "returned" => IsSubsequence(out, input)

\* a call that dropped an item and kept two, the second of which finished
\* first
BatchReturnsSubsequenceWitness ==
    /\ phase = "returned"
    /\ Len(input) = 3
    /\ Len(out) = 2
    /\ out[1] # out[2]
    /\ \E m, n \in 1..Len(completed) :
          /\ m < n
          /\ completed[m] > completed[n]
          /\ ~task[completed[m]].dup
          /\ ~task[completed[n]].dup

----------------------------------------------------------------------------
(* The batch call on a fresh Deduplicator whose cache holds the whole batch *)

\* the call has returned, it began on an empty cache, and no insertion of
\* the call had to evict
FreshBatchReturned ==
    /\ phase = "returned"
    /\ cache0 = << >>
    /\ cache_size >= Len(input)

(* C11: a batch call on a fresh Deduplicator with cache_size >= len(batch)
   never returns, under any worker scheduling, two items whose similarity is
   >= similarity_threshold; ["Hello world", "Hello world"] at threshold 0.9
   returns one element. *)
BatchOutputHasNoSimilarPair ==
    FreshBatchReturned =>
        \A i, j \in 1..Len(out) : i # j => ~Similar(kind, out[i], out[j])

(* C12: a batch call on a fresh Deduplicator with cache_size >= len(batch)
   keeps, under every worker scheduling, the first element of the batch and
   drops every later element whose similarity to it is >=
   similarity_threshold. *)
FirstSeenIsKept ==
    (FreshBatchReturned /\ Len(input) > 0) =>
        /\ ~task[1].dup
        /\ Len(out) > 0
        /\ out[1] = input[1]
        /\ \A i \in 2..Len(input) : Similar(kind, input[i], input[1]) => task[i].dup

----------------------------------------------------------------------------
(* Failures inside a task, and a pool that refuses the submission *)

\* the positions of the batch whose item makes the try block raise
RaisingItems == {i \in 1..Len(input) : Raises(kind, input[i])}

\* the batch call went through its tasks (no submission was refused)
TasksReturned == phase = "returned" /\ Len(task) = Len(input)

(* C13, as claimed: if fingerprinting or comparison raises for an item of a
   batch, the call returns the whole original input list, duplicates of
   earlier items included, rather than a partially filtered list. *)
RaisingItemReturnsWholeInput ==
    (TasksReturned /\ RaisingItems # {}) => out = input

(* C13, as amended: if fingerprinting raises for an item of a batch, the
   task of that item reports 'not duplicate' and the item is kept; the other
   items are still filtered by the verdicts of their own tasks, so the call
   returns the input without exactly the items whose task reported
   'duplicate'. *)
RaisingItemIsKept ==
    (TasksReturned /\ RaisingItems # {}) =>
        /\ \A i \in RaisingItems : ~task[i].dup
        /\ Len(out) = Len(input) - Cardinality({i \in 1..Len(input) : task[i].dup})
        /\ IsSubsequence(out, input)
        /\ \A i \in RaisingItems : input[i] \in Range(out)

\* [white, white, gray2d] returned as [white, gray2d]
RaisingItemIsKeptWitness ==
    /\ TasksReturned
    /\ input = <<"white", "white", "gray2d">>
    /\ out = <<"white", "gray2d">>

(* C14: is_duplicate_image and is_duplicate_text never let an exception
   reach the caller; a call whose item cannot be hashed returns 'not
   duplicate' (and leaves the caches as they were), and so does every call
   on the empty text, whose similarity to every cached text is 0. *)
SingleItemNeverRaises ==
    [][Called =>
        /\ ret'.op = PresentedKind
        /\ Raises(PresentedKind, Presented) =>
               (~ret'.dup /\ image_cache' = image_cache /\ text_cache' = text_cache)
        /\ (PresentedKind = "text" /\ Presented = << >>) => ~ret'.dup]_vars

\* a malformed frame presented to a Deduplicator whose cache holds a frame
SingleItemNeverRaisesWitness ==
    /\ Len(hist) >= 2
    /\ hist[Len(hist)] = [kind |-> "image", item |-> "gray2d"]
    /\ Len(image_cache) > 0
    /\ ret = [op |-> "image", dup |-> FALSE]

(* C15: deduplicate_images and deduplicate_texts never let an exception
   reach the caller: a call on a pool that was shut down, which refuses the
   first submission, returns its argument unmodified. *)
RefusedSubmissionReturnsInput ==
    (phase = "returned" /\ thread_pool = "shutdown") => out = input

\* a batch with two equal frames returned whole by a pool that was shut down
RefusedSubmissionReturnsInputWitness ==
    /\ phase = "returned"
    /\ thread_pool = "shutdown"
    /\ Len(input) = 2
    /\ input[1] = input[2]
    /\ ~Raises(kind, input[1])
    /\ out = input

----------------------------------------------------------------------------
(* The verdict as a function of the threshold *)

\* values of similarity_threshold in [0, 1]
ThresholdGrid ==
    Thresholds \cup {[num |-> 0, den |-> 1], [num |-> 1, den |-> 4], [num |-> 1, den |-> 1]}

ThresholdLE(t, u) == t.num * u.den <= u.num * t.den

\* the single-item verdict on the present cache is 'unique' at threshold t
UniqueAt(k, item, t) ==
    IF k = "image"
    THEN ~ScanImageAt(image_cache, ImageHashOf[item], 1, t)
    ELSE ~ScanTextAt(text_cache, item, 1, t)

(* C16: for a fixed cache content and a fixed candidate, a verdict 'unique'
   with threshold t is 'unique' with every threshold t' >= t: raising the
   threshold never turns 'unique' into 'duplicate'. *)
RaisingThresholdKeepsUnique ==
    \A t, u \in ThresholdGrid : ThresholdLE(t, u) =>
        /\ \A image \in Frames : UniqueAt("image", image, t) => UniqueAt("image", image, u)
        /\ \A text \in Snippets : UniqueAt("text", text, t) => UniqueAt("text", text, u)

\* a cache of two frames on which "quarter" is 'duplicate' at 3/4 (it
\* differs from "patch" in 16 of the 64 bits) and 'unique' at 9/10 and at 1
RaisingThresholdKeepsUniqueWitness ==
    /\ Len(image_cache) = 2
    /\ ~UniqueAt("image", "quarter", [num |-> 3, den |-> 4])
    /\ UniqueAt("image", "quarter", [num |-> 9, den |-> 10])
    /\ UniqueAt("image", "quarter", [num |-> 1, den |-> 1])

----------------------------------------------------------------------------
(* A list without similar elements given to a Deduplicator that was used *)

\* deduplicate_images has returned for a list no two elements of which have
\* similarity >= similarity_threshold
UniqueListReturned ==
    /\ phase = "returned"
    /\ kind = "image"
    /\ MutuallyNonSimilar("image", input)

\* no entry the image cache held when the call began is similar to an
\* element of the list
CacheHeldNoSimilar ==
    \A i \in 1..Len(cache0) : \A j \in 1..Len(input) :
        ~Similar("image", cache0[i].val, input[j])

(* C17, as claimed: for every list in which no two elements have similarity
   >= similarity_threshold, and for a Deduplicator in any reachable state
   (after an earlier deduplicate_images call on the same list, say),
   deduplicate_images returns the list unchanged. *)
UniqueListReturnedUnchanged ==
    UniqueListReturned => out = input

(* C17, as amended: for every list in which no two elements have similarity
   >= similarity_threshold, and for a Deduplicator whose image cache holds
   no entry of similarity >= similarity_threshold with an element of the
   list (a fresh Deduplicator in particular), deduplicate_images returns the
   list unchanged, same elements in the same order. *)
UniqueListUnchangedOnDissimilarCache ==
    (UniqueListReturned /\ CacheHeldNoSimilar) => out = input

\* a list of two frames returned whole by a Deduplicator whose cache held a
\* third frame from an earlier call
UniqueListUnchangedOnDissimilarCacheWitness ==
    /\ UniqueListReturned
    /\ CacheHeldNoSimilar
    /\ Len(cache0) > 0
    /\ Len(input) = 2
    /\ out = input

----------------------------------------------------------------------------
(* The comparisons on the shared vectorizer *)

\* two similarities are the same number
SameValue(x, y) == x.num * y.den = y.num * x.den

(* C18: the value calculate_text_similarity(a, b) returns depends on the
   pair (a, b) alone: it is the same whatever comparisons ran before and
   whatever comparisons other pool workers run at the same time on the
   shared vectorizer, and such a comparison never makes it fail or return
   0. *)
SimilarityDependsOnPairOnly ==
    \A w \in 1..NumWorkers :
        cmp[w].pc = "done" =>
            SameValue(cmp[w].result, calculate_text_similarity(cmp[w].text1, cmp[w].text2))

----------------------------------------------------------------------------
(* The run of process_video *)

\* the positions of calls at which op is called
CallsOf(op) == {i \in 1..Len(calls) : calls[i].op = op}

\* op is called exactly once, after the call of before and ahead of the call
\* of create_document
CalledOnceBetween(op, before) ==
    /\ Cardinality(CallsOf(op)) = 1
    /\ \A i \in CallsOf(op) :
          /\ \E b \in CallsOf(before) : b < i
          /\ \E c \in CallsOf("create_document") : i < c

(* C19: in every run of process_video that returns True, deduplicate_images
   is called exactly once after extract_frames and deduplicate_texts exactly
   once after extract_text, both before create_document, and the document
   is built from the deduplicated images and texts only. *)
DeduplicatesBeforeDocument ==
    (stage = At("returned") /\ result = "True") =>
        /\ CalledOnceBetween("deduplicate_images", "extract_frames")
        /\ CalledOnceBetween("deduplicate_texts", "extract_text")
        /\ \A c \in CallsOf("create_document") :
              calls[c].args = <<"unique_images", "unique_texts">>

\* the progress callback never asks to stop and the directories, the
\* download, the two extractions and the saving of the document succeed
StagesSucceed ==
    /\ world.callback.stop = Never
    /\ world.directories = "created"
    /\ world.download = "path"
    /\ world.frames = "frames"
    /\ world.texts = "texts"
    /\ world.save = "saved"

(* C20: when the download, the frame extraction, the text extraction and
   the document creation all succeed and the progress callback never asks
   to stop, process_video reports progress 100 and returns True. *)
SuccessfulStagesReturnTrue ==
    (stage = At("returned") /\ StagesSucceed) =>
        /\ result = "True"
        /\ world.callback.set => reported[Len(reported)] = 100

----------------------------------------------------------------------------
(* The failing stages of process_video *)

\* the stages of process_video, in the order of the method
StageOrder ==
    <<"_initialize_directories", "_download_youtube_video", "extract_frames",
      "extract_text", "create_document">>

\* the progress value reported right before the stage
CheckpointBefore(s) ==
    CASE s = "_initialize_directories" -> 0
      [] s = "_download_youtube_video" -> 10
      [] s = "extract_frames" -> 30
      [] s = "extract_text" -> 60
      [] s = "create_document" -> 80

\* the stage fails or raises in this run, if the run gets to it
StageFails(s) ==
    CASE s = "_initialize_directories" -> world.directories = "raise"
      [] s = "_download_youtube_video" -> world.download = "None"
      [] s = "extract_frames" -> world.frames # "frames"
      [] s = "extract_text" -> world.texts # "texts"
      [] s = "create_document" ->
           /\ world.create_document = "DocumentConverter.create_document"
           /\ world.save = "raise"

\* the position of the stage in StageOrder
StageIndex(s) == CHOOSE n \in 1..Len(StageOrder) : StageOrder[n] = s

(* C21: process_video never propagates an exception: in a run in which a
   stage (directory reset, download, frame extraction, text extraction,
   document creation) fails or raises, process_video returns False, no stage
   after the failing one is executed and no progress beyond the checkpoint
   of the failing stage is reported. *)
FailedStageReturnsFalse ==
    \A n \in 1..Len(StageOrder) :
        (stage = At("returned") /\ StageFails(StageOrder[n])) =>
            /\ result = "False"
            /\ \A c \in 1..Len(calls) : StageIndex(calls[c].op) <= n
            /\ \A r \in 1..Len(reported) : reported[r] <= CheckpointBefore(StageOrder[n])

\* extract_frames raised with the progress callback set: the run returned
\* False after the call, with progress 30 the last one reported
FailedStageReturnsFalseWitness ==
    /\ stage = At("returned")
    /\ world.frames = "raise"
    /\ world.callback.set
    /\ result = "False"
    /\ calls = <<[op |-> "extract_frames", args |-> <<"video_path">>]>>
    /\ reported = <<0, 10, 30>>

----------------------------------------------------------------------------
(* The lifecycle of the caches *)

\* no dedup operation was called and __del__ has not begun
Constructed == phase = "idle" /\ thread_pool = "live"

\* __del__ has returned
Disposed == thread_pool = "shutdown"

(* C22: the image cache and the text cache are both empty right after
   construction and both empty after disposal (__del__); disposal clears
   them only after every in-flight pool task has finished, so no worker
   adds an entry after the caches were cleared. *)
CachesEmptyWhenConstructedAndDisposed ==
    /\ Constructed => (image_cache = << >> /\ text_cache = << >>)
    /\ Disposed =>
          /\ image_cache = << >> /\ text_cache = << >>
          /\ \A i \in 1..Len(task) : task[i].pc = "done"

\* __del__ began during a batch call whose tasks had inserted entries: it
\* has returned before the call has, and both caches are empty
CachesEmptyWhenConstructedAndDisposedWitness ==
    /\ Disposed
    /\ phase = "running"
    /\ \E i \in 1..Len(task) : task[i].pc = "done" /\ ~task[i].dup
    /\ image_cache = << >> /\ text_cache = << >>

----------------------------------------------------------------------------
(* The two caches *)

\* the decision on item x of kind k for the cache od
Decide(k, od, x) ==
    IF k = "image"
    THEN _process_image(od, x, ImageHashOf[x])
    ELSE _process_text(od, x, TextHash(x))

\* the cache of kind k of a Deduplicator to which only the items of kind k
\* among the first n recorded ones were presented
RECURSIVE ReplayKind(_, _)
ReplayKind(k, n) ==
    IF n = 0 THEN << >>
    ELSE IF hist[n].kind # k THEN ReplayKind(k, n - 1)
    ELSE Decide(k, ReplayKind(k, n - 1), hist[n].item).cache

\* the step belongs to a batch call of kind k
BatchStepOf(k) == (phase # "idle" \/ phase' # "idle") /\ kind' = k

(* C23: the two caches are independent per content kind:
   is_duplicate_image and deduplicate_images leave text_cache unchanged,
   is_duplicate_text and deduplicate_texts leave image_cache unchanged, and
   the verdict for an image is the verdict it gets when only the images
   presented so far had been presented, whatever texts were presented in
   between (and the same for a text). *)
CachesIndependentPerKind ==
    [][ /\ (Called /\ PresentedKind = "image") =>
              /\ text_cache' = text_cache
              /\ ret'.dup = Decide("image", ReplayKind("image", Len(hist)), Presented).dup
        /\ (Called /\ PresentedKind = "text") =>
              /\ image_cache' = image_cache
              /\ ret'.dup = Decide("text", ReplayKind("text", Len(hist)), Presented).dup
        /\ BatchStepOf("image") => text_cache' = text_cache
        /\ BatchStepOf("text") => image_cache' = image_cache
      ]_vars

\* calls of both kinds were made, and a deduplicate_images call that added
\* an image has returned with the text cache still holding a text
CachesIndependentPerKindWitness ==
    /\ \E i, j \in 1..Len(hist) : hist[i].kind = "image" /\ hist[j].kind = "text" /\ i < j
    /\ phase = "returned"
    /\ kind = "image"
    /\ Len(out) > 0
    /\ Len(text_cache) > 0
    /\ Len(image_cache) > 0

----------------------------------------------------------------------------
(* The image similarity *)

\* the value is the rational n / d
IsRatio(value, n, d) == value.den > 0 /\ value.num * d = n * value.den

(* C24: for every pair of bitstrings h1, h2, calculate_image_similarity
   returns 1 - hamming(h1, h2) / len(h1) when the lengths are equal and 0
   when they differ; the result is always in [0, 1], is symmetric in its
   arguments, and equals 1 exactly when h1 = h2. *)
ImageSimilarityOfBitstrings ==
    answer.status # "none" =>
        LET h1 == arg[1]
            h2 == arg[2]
        IN  /\ answer.status = "returned"
            /\ Len(h1) = Len(h2) /\ Len(h1) > 0 =>
                  IsRatio(answer.value, Len(h1) - Hamming(h1, h2, 1), Len(h1))
            /\ Len(h1) # Len(h2) => IsRatio(answer.value, 0, 1)
            /\ answer.value.den > 0
            /\ 0 <= answer.value.num /\ answer.value.num <= answer.value.den
            /\ answer.value = calculate_image_similarity(h2, h1)
            /\ IsRatio(answer.value, 1, 1) <=> h1 = h2

----------------------------------------------------------------------------
(* The content-hash *)

(* C25: the content-hash is invariant to uniform recoloring: for every 8x8
   luminance grid g and every constant c such that no pixel of g + c is
   clipped, thresholding g + c against its own mean gives the same 64-bit
   string as thresholding g against its mean (bit i = 1 iff pixel i >
   mean). *)
HashInvariantToUniformRecoloring ==
    answer.status = "returned" =>
        /\ Len(answer.value) = HashLen
        /\ answer.value = Threshold(arg[1])
        /\ LET total == SumSeq(arg[1], 1)
           IN  \A i \in 1..HashLen :
                   answer.value[i] = "1" <=> arg[1][i] * HashLen > total

\* a grid of two levels with a dark central region, hashed after every cell
\* was made darker: both levels are present in the hash
HashInvariantToUniformRecoloringWitness ==
    /\ answer.status = "returned"
    /\ arg[2] < 0
    /\ arg[1][1] # arg[1][28]
    /\ answer.value[1] = "1"
    /\ answer.value[28] = "0"

----------------------------------------------------------------------------
(* Near-duplicate frames *)

\* the thumbnail cells in which two frames differ
DifferingCells(f, g) == {i \in 1..HashLen : Pixels(f)[i] # Pixels(g)[i]}

\* the frames differ in a small region only: at most 4 of the 64 cells,
\* about 5% of the area
NearDuplicate(f, g) ==
    f # g /\ Cardinality(DifferingCells(f, g)) <= 4

NearDuplicateOf == [p \in Frames \X Frames |-> NearDuplicate(p[1], p[2])] @@ << >>

(* C26: a frame that differs from an already cached frame only in a small
   region (at most a few of the 64 thumbnail cells recolored) is classified
   'duplicate' by is_duplicate_image at threshold 0.9, for every base frame
   including one with a uniform background. *)
NearDuplicateIsDuplicate ==
    [][ ( /\ Called
          /\ PresentedKind = "image"
          /\ similarity_threshold = DefaultThreshold
          /\ \E i \in 1..Len(image_cache) :
                NearDuplicateOf[<<image_cache[i].val, Presented>>] )
        => ret'.dup ]_vars

----------------------------------------------------------------------------
(* Frames of different content *)

(* C27: an all-white frame and an all-black frame get different
   content-hashes, so the all-black frame presented after the all-white one
   is classified 'not duplicate' and both are kept by deduplicate_images. *)
WhiteAndBlackAreDistinct ==
    [][ /\ ImageHashOf["white"] # ImageHashOf["black"]
        /\ (Called /\ hist = <<[kind |-> "image", item |-> "white"]>> /\ Presented = "black")
              => ~ret'.dup
        /\ (phase' = "returned" /\ hist' = << >> /\ input' = <<"white", "black">>)
              => out' = input'
      ]_vars

----------------------------------------------------------------------------
(* The keys of the image cache *)

\* a string of exactly 64 characters over {0, 1}
IsFingerprint(h) == Len(h) = HashLen /\ \A i \in 1..Len(h) : h[i] \in Bit

\* IsFingerprint of the content-hash of every frame
IsFingerprintOf ==
    [h \in {ImageHashOf[f] : f \in AllFrames} |-> IsFingerprint(h)] @@ << >>

(* C28: every key stored in image_cache is a string of exactly 64
   characters over {0, 1}, so every comparison made by _process_image is
   between two fingerprints of equal length: the length-mismatch branch of
   calculate_image_similarity is never taken from is_duplicate_image. *)
ImageKeysAreFingerprints ==
    \A i \in 1..Len(image_cache) :
        /\ image_cache[i].key \in DOMAIN IsFingerprintOf
        /\ IsFingerprintOf[image_cache[i].key]
        /\ \A f \in ContrastFrames :
              /\ IsFingerprintOf[ImageHashOf[f]]
              /\ Len(ImageHashOf[f]) = Len(image_cache[i].key)

\* single-item calls and a deduplicate_images call have filled the image
\* cache with two keys
ImageKeysAreFingerprintsWitness ==
    /\ Len(hist) > 0
    /\ phase = "returned"
    /\ Len(out) > 0
    /\ Len(image_cache) = 2
    /\ image_cache[1].key # image_cache[2].key

----------------------------------------------------------------------------
(* The main window *)

RunningThreads == {i \in 1..Len(threads) : isRunning(threads[i])}

(* C29: in the GUI, from the moment processing is started until that
   ProcessingThread has finished, the extract button stays disabled, so
   start_processing cannot be triggered again and at most one
   ProcessingThread is running at any time, also after the user pressed
   stop. *)
OneProcessingThread ==
    /\ RunningThreads # {} => ~extract_button
    /\ Cardinality(RunningThreads) <= 1

----------------------------------------------------------------------------
(* The end of a batch call *)

(* C30: every call to deduplicate_images / deduplicate_texts eventually
   returns under fair scheduling of the pool workers, and on the normal
   path it returns only after the decision of every submitted item has
   completed, so no worker of that batch touches a cache after the call
   returned. *)
BatchCallReturns ==
    /\ (phase = "running") ~> (phase = "returned")
    /\ [](phase = "returned" => \A i \in 1..Len(task) : task[i].pc = "done")
    /\ [][phase = "returned" => cacheVars' = cacheVars]_vars

\* a call has returned whose tasks finished in another order than they
\* were submitted in, one of them with the verdict 'duplicate'
BatchCallReturnsWitness ==
    /\ phase = "returned"
    /\ Len(completed) >= 2
    /\ completed[1] # 1
    /\ \E i \in 1..Len(task) : task[i].dup
    /\ \A i \in 1..Len(task) : task[i].pc = "done"

----------------------------------------------------------------------------
(* The progress checkpoints of process_video *)

\* the progress values in the order of the _update_progress calls
ProgressOrder == <<0, 10, 30, 60, 80, 90, 100>>

IsPrefix(s, t) == Len(s) <= Len(t) /\ \A i \in 1..Len(s) : s[i] = t[i]

\* the callback has returned False at its checkpoint
Stopped ==
    /\ world.callback.set
    /\ Len(reported) > 0
    /\ reported[Len(reported)] = world.callback.stop

(* C31: process_video consults the progress callback at the checkpoints 0,
   10, 30, 60, 80, 90 in this order, so reported progress never decreases;
   if the callback returns False at a checkpoint, process_video returns
   False without starting the stage that follows it, and progress 100 is
   reported only on a run that returns True. *)
ProgressInOrderAndStopIsObeyed ==
    /\ IsPrefix(reported, ProgressOrder)
    /\ \A i, j \in 1..Len(reported) : i < j => reported[i] < reported[j]
    /\ Stopped =>
          /\ stage = At("returned")
          /\ result = "False"
          /\ \A c \in 1..Len(calls) : CheckpointBefore(calls[c].op) < world.callback.stop
    /\ (\E r \in 1..Len(reported) : reported[r] = 100) =>
          (stage = At("returned") /\ result = "True")

\* the callback returned False at checkpoint 60: the frames were extracted,
\* the text extraction was not started
ProgressInOrderAndStopIsObeyedWitness ==
    /\ Stopped
    /\ world.callback.stop = 60
    /\ reported = <<0, 10, 30, 60>>
    /\ result = "False"
    /\ calls = <<[op |-> "extract_frames", args |-> <<"video_path">>]>>

----------------------------------------------------------------------------
(* The entries of one cache against each other *)

\* no two entries of the cache of kind k reach the threshold
EntriesMutuallyBelowThreshold(k) ==
    \A i, j \in 1..Len(CacheOf(k)) :
        i # j => ~Similar(k, CacheOf(k)[i].val, CacheOf(k)[j].val)

\* the call of the step presents an image whose key is in image_cache
PresentsCachedKey ==
    /\ Called
    /\ PresentedKind = "image"
    /\ ~CvtColorRaises(Presented)
    /\ OdHas(image_cache, ImageHashOf[Presented])

(* C32: after any sequence of single-item calls made one at a time with
   similarity_threshold <= 1, any two distinct entries of the same cache
   have similarity < similarity_threshold, and no insertion overwrites an
   existing image_cache key: an image whose key is in the cache is a
   duplicate and the call writes nothing. *)
EntriesBelowThresholdAndNoKeyOverwritten ==
    /\ [](ImageLE(similarity_threshold, One) =>
              /\ EntriesMutuallyBelowThreshold("image")
              /\ EntriesMutuallyBelowThreshold("text"))
    /\ [][ImageLE(similarity_threshold, One) /\ PresentsCachedKey =>
              /\ ret'.dup
              /\ image_cache' = image_cache]_vars

\* at threshold 1, with two entries in the image cache, an image whose key
\* is cached was presented and found duplicate
EntriesBelowThresholdAndNoKeyOverwrittenWitness ==
    /\ similarity_threshold = One
    /\ Len(image_cache) = 2
    /\ Len(hist) = 3
    /\ hist[3].kind = "image"
    /\ ~CvtColorRaises(hist[3].item)
    /\ OdHas(image_cache, ImageHashOf[hist[3].item])
    /\ ret = [op |-> "image", dup |-> TRUE]

----------------------------------------------------------------------------
(* The calls that end in the except clause *)

\* the try block of the single-item call of kind k raises for item on the
\* cache od
FailsOn(k, item, od) == Raises(k, item) \/ PopItemRaises(od)

(* C33: when is_duplicate_image or is_duplicate_text catches an internal
   exception and returns False, both caches are exactly as they were before
   the call: the failing item is not inserted and evicts nothing, and the
   call fails in the same way when the item is presented again. *)
FailedCallLeavesCachesUntouched ==
    [][\A k \in {"image", "text"} :
          Called /\ PresentedKind = k /\ FailsOn(k, Presented, CacheOf(k)) =>
              /\ ret' = [op |-> k, dup |-> FALSE]
              /\ image_cache' = image_cache
              /\ text_cache' = text_cache
              /\ FailsOn(k, Presented,
                         IF k = "image" THEN image_cache' ELSE text_cache')]_vars

\* a single-channel frame was presented twice to a full image cache: not
\* duplicate both times, the cache as it was
FailedCallLeavesCachesUntouchedWitness ==
    /\ cache_size = 1
    /\ Len(hist) = 3
    /\ hist[1] = [kind |-> "image", item |-> "white"]
    /\ hist[2] = [kind |-> "image", item |-> "gray2d"]
    /\ hist[3] = [kind |-> "image", item |-> "gray2d"]
    /\ ret = [op |-> "image", dup |-> FALSE]
    /\ Vals(image_cache) = <<"white">>

----------------------------------------------------------------------------
(* C34: construction accepts any similarity_threshold and cache_size without
   raising; with cache_size <= 0 every presented item is classified 'not
   duplicate', no call raises, and both caches stay empty forever. *)
NonPositiveCacheSizeKeepsCachesEmpty ==
    cache_size <= 0 =>
        /\ image_cache = << >>
        /\ text_cache = << >>
        /\ ret.dup = FALSE
        /\ ret.op # "raise"

\* with cache_size 0 the same frame was presented twice and a text once:
\* not duplicate each time, nothing cached
NonPositiveCacheSizeKeepsCachesEmptyWitness ==
    /\ cache_size = 0
    /\ hist = <<[kind |-> "image", item |-> "white"],
                [kind |-> "image", item |-> "white"],
                [kind |-> "text", item |-> <<"hello", "world">>]>>
    /\ ret = [op |-> "text", dup |-> FALSE]
    /\ image_cache = << >>
    /\ text_cache = << >>

----------------------------------------------------------------------------
(* The signals of a ProcessingThread *)

Finished == {i \in 1..Len(emitted) : emitted[i].signal = "finished"}

Progress(log) == SelectSeq(log, LAMBDA s : s.signal = "progress")

(* C35: every run of ProcessingThread emits its finished(bool) signal
   exactly once, whether process_video returns True, returns False or
   raises; once cancellation was requested it emits no further progress
   signal, and finished(True) is emitted only if process_video returned
   True. *)
FinishedOnceAndNoProgressAfterCancel ==
    /\ [](/\ Cardinality(Finished) <= 1
          /\ processing_thread.pc = "over" => Cardinality(Finished) = 1
          /\ \A i \in Finished :
                 emitted[i].value => (stage = At("returned") /\ result = "True"))
    /\ [][processing_thread._is_cancelled => Progress(emitted') = Progress(emitted)]_vars

----------------------------------------------------------------------------
(* C36: for every non-empty frame list, extract_slides returns a
   subsequence of the input that starts with the first frame, any two
   consecutive returned slides are at least 10 positions apart in the
   input, and a frame is accepted only if its similarity to each of the
   last three accepted slides is <= 0.85; on an empty list or on any
   exception it returns an empty list. *)
SlidesAreSpacedAndUnique ==
    answer.status = "returned" =>
        LET frames == arg[1]
            slides == answer.value.slides
            at == answer.value.accepted
        IN  IF frames.type = "list" /\ Len(frames.items) > 0
            THEN /\ Len(slides) > 0
                 /\ Len(at) = Len(slides)
                 /\ at[1] = 1
                 /\ \A j \in 1..Len(slides) :
                        /\ at[j] \in 1..Len(frames.items)
                        /\ slides[j] = frames.items[at[j]]
                 /\ \A j \in 1..(Len(slides) - 1) : at[j + 1] - at[j] >= 10
                 /\ \A j \in 2..Len(slides) :
                        \A k \in 1..(j - 1) :
                            k >= j - 3 =>
                                ~SimGT(SlideSimOf[<<slides[k], slides[j]>>],
                                       [num |-> 17, den |-> 20])
            ELSE slides = << >>

\* three slides, ten positions apart, out of three runs of ten frames
SlidesAreSpacedAndUniqueWitness ==
    /\ answer.status = "returned"
    /\ arg[1].type = "list"
    /\ Len(arg[1].items) = 30
    /\ answer.value.slides = <<"title", "chart", "photo">>
    /\ answer.value.accepted = <<1, 11, 21>>

====
